---- MODULE Spec2Model ----
(***************************************************************************)
(* A model of the AKUH health-service scraper and Storyblok uploader:      *)
(*   src/akuh_scraper.py            the scraper                            *)
(*   src/akuh_uploader.py           the standalone uploader                *)
(*   src/akuh_scrape_and_upload.py  the combined script                    *)
(*                                                                         *)
(* Text is a sequence of pieces.  A piece is one character (" ", "\n",     *)
(* "\t", "#", the zero-width space ZWSP, the non-breaking space NBSP) or a *)
(* run of ordinary characters holding none of those ("Cardiology",         *)
(* "faculty"); phrases the code searches for are single pieces.  Spelled   *)
(* gives the characters of every piece of several characters; lower, the   *)
(* word count and sanitize_filename are computed from them.                *)
(***************************************************************************)
EXTENDS Integers, Sequences, FiniteSets, TLC

VARIABLES
    s,              \* clean_text: the raw text handed to it
    cleaned,        \* clean_text: the successive results, clean_text applied again to each
    data,           \* classify_page_type: the record it is given
    page_type,      \* classify_page_type / scrape_page: the classification returned
    doc,            \* scrape_page: the parsed document (soup), nodes in document order
    page,           \* scrape_page: <<the record returned>>, <<>> before the call
    content_divs,   \* <<content_div of extract_body_content, of extract_subsection_links>>
    mode,           \* main: "scrape_only", "upload_only" or "scrape_upload" (the arguments)
    links_file,     \* main: whether the links file / the folder to upload exists
    urls,           \* main: the URLs read, each with what its fetch will answer
    mpc,            \* main: where main is
    idx,            \* main: how many URLs the scrape loop has gone through
    results,        \* main: results, as the numbers of the URLs scraped
    failed_urls,    \* main: failed_urls, as the numbers of the URLs
    page_counter,   \* main: page_counter
    files,          \* main: the record files written to the output folder, in order
    fetches,        \* the requests.get calls made, as the numbers of the URLs
    sleeps,         \* main: the seconds the scrape loop has slept so far
    metadata,       \* main: <<the scrape_metadata and the summary.csv rows written>>, <<>> before
    script,         \* which script runs: "scraper", "uploader" or "combined"
    config,         \* run_upload: the STORYBLOK_TOKEN / STORYBLOK_SPACE_ID environment
    json_paths,     \* run_upload: the contents of the files it is given, in order
    pc,             \* run_upload: where the run is
    remote_folders, \* the CMS: how many leading parts of CONTENT_PATH exist as nested folders
    folder_i,       \* ensure_content_folder_by_path: 0 while listing, else the part being created
    jp,             \* run_upload: the number of the record being processed (0: none yet)
    uploaded_count, \* run_upload: its counter
    failed_count,   \* run_upload: its counter
    img_attempt,    \* upload_image_to_storyblok: attempt
    attempt,        \* _req: attempt
    slug_i,         \* create_storyblok_story: which candidate slug is being tried (1..3)
    last_err,       \* _req: last_err, the response or error of the last attempt
    image_asset,    \* run_upload: whether upload_image_to_storyblok returned an asset
    img_err,        \* upload_image_to_storyblok: the exception e it caught last ("": none)
    calls,          \* the remote calls issued: <<record number, kind>>
    log,            \* run_upload: the closing log message of each record processed
    story_requests, \* create_storyblok_story: the requests sent for the record so far
    signed_payload, \* upload_image_to_storyblok: payload, "keyed" or "no_key" ("": none yet)
    story_err,      \* create_storyblok_story: the exception it returned None on ("": none)
    space,          \* the CMS: the folders of the space, as GET stories?folder_only=1 lists them
    path_parts,     \* ensure_content_folder_by_path: its argument
    returned        \* ensure_content_folder_by_path: what each call so far returned and did

scrapeVars == <<s, cleaned, data, page_type, doc, page, content_divs>>

mainVars ==
    <<mode, links_file, urls, mpc, idx, results, failed_urls, page_counter, files, fetches,
      sleeps, metadata>>

uploadVars ==
    <<script, config, json_paths, pc, remote_folders, folder_i, jp, uploaded_count,
      failed_count, img_attempt, attempt, slug_i, last_err, image_asset, img_err, calls, log,
      story_requests, signed_payload, story_err>>

folderVars == <<space, path_parts, returned>>

vars == <<scrapeVars, mainVars, uploadVars, folderVars>>

None == "None"

-----------------------------------------------------------------------------
(* Text                                                                    *)

ZWSP == "ZWSP"      \* U+200B
NBSP == "NBSP"      \* U+00A0

\* The characters Python's \s and str.strip() treat as whitespace (NBSP is
\* one too, but clean_text has replaced it before either is applied).
IsSpace(c) == c \in {" ", "\n", "\t", NBSP}

\* str.replace(old, '') and str.replace(old, new) for a one-character old.
str_remove(t, old) == SelectSeq(t, LAMBDA c : c # old)
str_replace(t, old, new) == [i \in 1..Len(t) |-> IF t[i] = old THEN new ELSE t[i]]

RECURSIVE lstrip(_)
lstrip(t) == IF t # <<>> /\ IsSpace(Head(t)) THEN lstrip(Tail(t)) ELSE t

RECURSIVE rstrip(_)
rstrip(t) ==
    IF t # <<>> /\ IsSpace(t[Len(t)]) THEN rstrip(SubSeq(t, 1, Len(t) - 1)) ELSE t

strip(t) == rstrip(lstrip(t))

\* re.sub(r'\s+', ' ', t): every maximal run of whitespace becomes one space.
RECURSIVE sub_whitespace(_)
sub_whitespace(t) ==
    IF t = <<>> THEN <<>>
    ELSE IF IsSpace(Head(t)) THEN <<" ">> \o sub_whitespace(lstrip(Tail(t)))
    ELSE <<Head(t)>> \o sub_whitespace(Tail(t))

\* The mutant of clean_text that normalises whitespace before it removes the
\* zero-width spaces.
clean_text_collapse_first(text) ==
    strip(str_remove(sub_whitespace(str_replace(text, NBSP, " ")), ZWSP))

clean_text(text) ==
    strip(sub_whitespace(str_replace(str_remove(text, ZWSP), NBSP, " ")))

\* len(text), in characters: ZWSP and NBSP are one character each.
PieceLen(c) == IF c \in {ZWSP, NBSP} THEN 1 ELSE Len(c)

RECURSIVE text_len(_)
text_len(t) == IF t = <<>> THEN 0 ELSE PieceLen(Head(t)) + text_len(Tail(t))

\* How the pieces of several characters are spelled: <<piece, its characters>>.
\* A piece that is not listed is one character.
Spelled ==
    { <<"© The Aga Khan University Hospital",
          <<"©", " ", "T", "h", "e", " ", "A", "g", "a", " ", "K", "h", "a", "n", " ", "U",
            "n", "i", "v", "e", "r", "s", "i", "t", "y", " ", "H", "o", "s", "p", "i", "t",
            "a", "l">>>>,
      <<"© the aga khan university hospital",
          <<"©", " ", "t", "h", "e", " ", "a", "g", "a", " ", "k", "h", "a", "n", " ", "u",
            "n", "i", "v", "e", "r", "s", "i", "t", "y", " ", "h", "o", "s", "p", "i", "t",
            "a", "l">>>>,
      <<"AppStore", <<"A", "p", "p", "S", "t", "o", "r", "e">>>>,
      <<"appstore", <<"a", "p", "p", "s", "t", "o", "r", "e">>>>,
      <<"Automation", <<"A", "u", "t", "o", "m", "a", "t", "i", "o", "n">>>>,
      <<"automation", <<"a", "u", "t", "o", "m", "a", "t", "i", "o", "n">>>>,
      <<"Call", <<"C", "a", "l", "l">>>>,
      <<"call", <<"c", "a", "l", "l">>>>,
      <<"Cardiology", <<"C", "a", "r", "d", "i", "o", "l", "o", "g", "y">>>>,
      <<"cardiology", <<"c", "a", "r", "d", "i", "o", "l", "o", "g", "y">>>>,
      <<"Centre", <<"C", "e", "n", "t", "r", "e">>>>,
      <<"centre", <<"c", "e", "n", "t", "r", "e">>>>,
      <<"Click here", <<"C", "l", "i", "c", "k", " ", "h", "e", "r", "e">>>>,
      <<"click here", <<"c", "l", "i", "c", "k", " ", "h", "e", "r", "e">>>>,
      <<"Clinic", <<"C", "l", "i", "n", "i", "c">>>>,
      <<"clinic", <<"c", "l", "i", "n", "i", "c">>>>,
      <<"Collapse", <<"C", "o", "l", "l", "a", "p", "s", "e">>>>,
      <<"collapse", <<"c", "o", "l", "l", "a", "p", "s", "e">>>>,
      <<"Content", <<"C", "o", "n", "t", "e", "n", "t">>>>,
      <<"content", <<"c", "o", "n", "t", "e", "n", "t">>>>,
      <<"Dr", <<"D", "r">>>>,
      <<"dr", <<"d", "r">>>>,
      <<"Eye", <<"E", "y", "e">>>>,
      <<"eye", <<"e", "y", "e">>>>,
      <<"FACULTY", <<"F", "A", "C", "U", "L", "T", "Y">>>>,
      <<"faculty", <<"f", "a", "c", "u", "l", "t", "y">>>>,
      <<"FAMILY HIFAZAT",
          <<"F", "A", "M", "I", "L", "Y", " ", "H", "I", "F", "A", "Z", "A", "T">>>>,
      <<"family hifazat",
          <<"f", "a", "m", "i", "l", "y", " ", "h", "i", "f", "a", "z", "a", "t">>>>,
      <<"Faculty", <<"F", "a", "c", "u", "l", "t", "y">>>>,
      <<"Family Hifazat",
          <<"F", "a", "m", "i", "l", "y", " ", "H", "i", "f", "a", "z", "a", "t">>>>,
      <<"Find a Doctor", <<"F", "i", "n", "d", " ", "a", " ", "D", "o", "c", "t", "o", "r">>>>,
      <<"find a doctor", <<"f", "i", "n", "d", " ", "a", " ", "d", "o", "c", "t", "o", "r">>>>,
      <<"Heart", <<"H", "e", "a", "r", "t">>>>,
      <<"heart", <<"h", "e", "a", "r", "t">>>>,
      <<"Home", <<"H", "o", "m", "e">>>>,
      <<"home", <<"h", "o", "m", "e">>>>,
      <<"MEET OUR", <<"M", "E", "E", "T", " ", "O", "U", "R">>>>,
      <<"meet our", <<"m", "e", "e", "t", " ", "o", "u", "r">>>>,
      <<"Main", <<"M", "a", "i", "n">>>>,
      <<"main", <<"m", "a", "i", "n">>>>,
      <<"Meet our", <<"M", "e", "e", "t", " ", "o", "u", "r">>>>,
      <<"More", <<"M", "o", "r", "e">>>>,
      <<"more", <<"m", "o", "r", "e">>>>,
      <<"Nav", <<"N", "a", "v">>>>,
      <<"nav", <<"n", "a", "v">>>>,
      <<"One", <<"O", "n", "e">>>>,
      <<"one", <<"o", "n", "e">>>>,
      <<"Open", <<"O", "p", "e", "n">>>>,
      <<"open", <<"o", "p", "e", "n">>>>,
      <<"Our", <<"O", "u", "r">>>>,
      <<"our", <<"o", "u", "r">>>>,
      <<"Overview", <<"O", "v", "e", "r", "v", "i", "e", "w">>>>,
      <<"overview", <<"o", "v", "e", "r", "v", "i", "e", "w">>>>,
      <<"PlayStore", <<"P", "l", "a", "y", "S", "t", "o", "r", "e">>>>,
      <<"playstore", <<"p", "l", "a", "y", "s", "t", "o", "r", "e">>>>,
      <<"Please", <<"P", "l", "e", "a", "s", "e">>>>,
      <<"please", <<"p", "l", "e", "a", "s", "e">>>>,
      <<"Quick Links", <<"Q", "u", "i", "c", "k", " ", "L", "i", "n", "k", "s">>>>,
      <<"quick links", <<"q", "u", "i", "c", "k", " ", "l", "i", "n", "k", "s">>>>,
      <<"REQUEST AN APPOINTMENT",
          <<"R", "E", "Q", "U", "E", "S", "T", " ", "A", "N", " ", "A", "P", "P", "O", "I",
            "N", "T", "M", "E", "N", "T">>>>,
      <<"request an appointment",
          <<"r", "e", "q", "u", "e", "s", "t", " ", "a", "n", " ", "a", "p", "p", "o", "i",
            "n", "t", "m", "e", "n", "t">>>>,
      <<"Request an Appointment",
          <<"R", "e", "q", "u", "e", "s", "t", " ", "a", "n", " ", "A", "p", "p", "o", "i",
            "n", "t", "m", "e", "n", "t">>>>,
      <<"Resources and Information",
          <<"R", "e", "s", "o", "u", "r", "c", "e", "s", " ", "a", "n", "d", " ", "I", "n",
            "f", "o", "r", "m", "a", "t", "i", "o", "n">>>>,
      <<"resources and information",
          <<"r", "e", "s", "o", "u", "r", "c", "e", "s", " ", "a", "n", "d", " ", "i", "n",
            "f", "o", "r", "m", "a", "t", "i", "o", "n">>>>,
      <<"Services", <<"S", "e", "r", "v", "i", "c", "e", "s">>>>,
      <<"services", <<"s", "e", "r", "v", "i", "c", "e", "s">>>>,
      <<"Surgery", <<"S", "u", "r", "g", "e", "r", "y">>>>,
      <<"surgery", <<"s", "u", "r", "g", "e", "r", "y">>>>,
      <<"The", <<"T", "h", "e">>>>,
      <<"the", <<"t", "h", "e">>>>,
      <<"Unit", <<"U", "n", "i", "t">>>>,
      <<"unit", <<"u", "n", "i", "t">>>>,
      <<"Untitled", <<"U", "n", "t", "i", "t", "l", "e", "d">>>>,
      <<"untitled", <<"u", "n", "t", "i", "t", "l", "e", "d">>>>,
      <<"Website Policies",
          <<"W", "e", "b", "s", "i", "t", "e", " ", "P", "o", "l", "i", "c", "i", "e", "s">>>>,
      <<"website policies",
          <<"w", "e", "b", "s", "i", "t", "e", " ", "p", "o", "l", "i", "c", "i", "e", "s">>>>,
      <<"Zone", <<"Z", "o", "n", "e">>>>,
      <<"zone", <<"z", "o", "n", "e">>>>,
      <<"?Spec=", <<"?", "S", "p", "e", "c", "=">>>>,
      <<"?spec=", <<"?", "s", "p", "e", "c", "=">>>>,
      <<"&Spec=", <<"&", "S", "p", "e", "c", "=">>>>,
      <<"&spec=", <<"&", "s", "p", "e", "c", "=">>>>,
      <<"call to book", <<"c", "a", "l", "l", " ", "t", "o", " ", "b", "o", "o", "k">>>>,
      <<"google play", <<"g", "o", "o", "g", "l", "e", " ", "p", "l", "a", "y">>>>,
      <<"app store", <<"a", "p", "p", " ", "s", "t", "o", "r", "e">>>>,
      <<"S1", <<"S", "1">>>>,
      <<"s1", <<"s", "1">>>>,
      <<"S2", <<"S", "2">>>>,
      <<"s2", <<"s", "2">>>>,
      <<"S3", <<"S", "3">>>>,
      <<"s3", <<"s", "3">>>>,
      <<"S4", <<"S", "4">>>>,
      <<"s4", <<"s", "4">>>>,
      <<"S5", <<"S", "5">>>>,
      <<"s5", <<"s", "5">>>>,
      <<"S6", <<"S", "6">>>>,
      <<"s6", <<"s", "6">>>>,
      <<"S7", <<"S", "7">>>>,
      <<"s7", <<"s", "7">>>>,
      <<"S8", <<"S", "8">>>>,
      <<"s8", <<"s", "8">>>>,
      <<"S9", <<"S", "9">>>>,
      <<"s9", <<"s", "9">>>>,
      <<"S10", <<"S", "1", "0">>>>,
      <<"s10", <<"s", "1", "0">>>>,
      <<"(021)", <<"(", "0", "2", "1", ")">>>>,
      <<"(021)111911911",
          <<"(", "0", "2", "1", ")", "1", "1", "1", "9", "1", "1", "9", "1", "1">>>>,
      <<"(042)123456789",
          <<"(", "0", "4", "2", ")", "1", "2", "3", "4", "5", "6", "7", "8", "9">>>>,
      <<".doc", <<".", "d", "o", "c">>>>,
      <<".docx", <<".", "d", "o", "c", "x">>>>,
      <<".json", <<".", "j", "s", "o", "n">>>>,
      <<".pdf", <<".", "p", "d", "f">>>>,
      <<".png", <<".", "p", "n", "g">>>>,
      <<".xlsx", <<".", "x", "l", "s", "x">>>>,
      <<"/departments/cardiology",
          <<"/", "d", "e", "p", "a", "r", "t", "m", "e", "n", "t", "s", "/", "c", "a", "r",
            "d", "i", "o", "l", "o", "g", "y">>>>,
      <<"/eye", <<"/", "e", "y", "e">>>>,
      <<"/findadoctor.aspx",
          <<"/", "f", "i", "n", "d", "a", "d", "o", "c", "t", "o", "r", ".", "a", "s", "p",
            "x">>>>,
      <<"/services", <<"/", "s", "e", "r", "v", "i", "c", "e", "s">>>>,
      <<"/surgery", <<"/", "s", "u", "r", "g", "e", "r", "y">>>>,
      <<"/top", <<"/", "t", "o", "p">>>>,
      <<"/unit", <<"/", "u", "n", "i", "t">>>>,
      <<"/x", <<"/", "x">>>>,
      <<"111911911", <<"1", "1", "1", "9", "1", "1", "9", "1", "1">>>>,
      <<"ab", <<"a", "b">>>>,
      <<"aku.edu", <<"a", "k", "u", ".", "e", "d", "u">>>>,
      <<"appointment", <<"a", "p", "p", "o", "i", "n", "t", "m", "e", "n", "t">>>>,
      <<"article", <<"a", "r", "t", "i", "c", "l", "e">>>>,
      <<"body", <<"b", "o", "d", "y">>>>,
      <<"breadcrumb", <<"b", "r", "e", "a", "d", "c", "r", "u", "m", "b">>>>,
      <<"care", <<"c", "a", "r", "e">>>>,
      <<"contact", <<"c", "o", "n", "t", "a", "c", "t">>>>,
      <<"daily", <<"d", "a", "i", "l", "y">>>>,
      <<"example.com", <<"e", "x", "a", "m", "p", "l", "e", ".", "c", "o", "m">>>>,
      <<"footer", <<"f", "o", "o", "t", "e", "r">>>>,
      <<"form", <<"f", "o", "r", "m">>>>,
      <<"header", <<"h", "e", "a", "d", "e", "r">>>>,
      <<"health-services",
          <<"h", "e", "a", "l", "t", "h", "-", "s", "e", "r", "v", "i", "c", "e", "s">>>>,
      <<"hospitals.aku.edu",
          <<"h", "o", "s", "p", "i", "t", "a", "l", "s", ".", "a", "k", "u", ".", "e", "d",
            "u">>>>,
      <<"http://", <<"h", "t", "t", "p", ":", "/", "/">>>>,
      <<"httpdocs", <<"h", "t", "t", "p", "d", "o", "c", "s">>>>,
      <<"https://", <<"h", "t", "t", "p", "s", ":", "/", "/">>>>,
      <<"menu", <<"m", "e", "n", "u">>>>,
      <<"page", <<"p", "a", "g", "e">>>>,
      <<"ref=aku.edu", <<"r", "e", "f", "=", "a", "k", "u", ".", "e", "d", "u">>>>,
      <<"report", <<"r", "e", "p", "o", "r", "t">>>>,
      <<"sidebar", <<"s", "i", "d", "e", "b", "a", "r">>>>,
      <<"team", <<"t", "e", "a", "m">>>>,
      <<"top", <<"t", "o", "p">>>>,
      <<"with", <<"w", "i", "t", "h">>>>,
      <<"or", <<"o", "r">>>>,
      <<"files", <<"f", "i", "l", "e", "s">>>>,
      <<"img", <<"i", "m", "g">>>> }

Vocabulary == {e[1] : e \in Spelled}

SpellingOf == [w \in Vocabulary |-> (CHOOSE e \in Spelled : e[1] = w)[2]]

\* The characters of a piece.
spelling(c) == IF c \in Vocabulary THEN SpellingOf[c] ELSE <<c>>

\* The characters of a text.
RECURSIVE chars(_)
chars(t) == IF t = <<>> THEN <<>> ELSE spelling(Head(t)) \o chars(Tail(t))

\* str.lower() of one character.
lower_char(c) ==
    CASE c = "A" -> "a"
      [] c = "B" -> "b"
      [] c = "C" -> "c"
      [] c = "D" -> "d"
      [] c = "E" -> "e"
      [] c = "F" -> "f"
      [] c = "G" -> "g"
      [] c = "H" -> "h"
      [] c = "I" -> "i"
      [] c = "J" -> "j"
      [] c = "K" -> "k"
      [] c = "L" -> "l"
      [] c = "M" -> "m"
      [] c = "N" -> "n"
      [] c = "O" -> "o"
      [] c = "P" -> "p"
      [] c = "Q" -> "q"
      [] c = "R" -> "r"
      [] c = "S" -> "s"
      [] c = "T" -> "t"
      [] c = "U" -> "u"
      [] c = "V" -> "v"
      [] c = "W" -> "w"
      [] c = "X" -> "x"
      [] c = "Y" -> "y"
      [] c = "Z" -> "z"
      [] OTHER -> c

\* str.lower() of every piece of Vocabulary: each character lowered, and the
\* piece that is spelled so.
LowerOf ==
    [w \in Vocabulary |->
        (CHOOSE e \in Spelled :
            e[2] = [i \in 1..Len(spelling(w)) |-> lower_char(spelling(w)[i])])[1]]

\* str.lower() of a piece.
lower(c) == IF c \in Vocabulary THEN LowerOf[c] ELSE lower_char(c)

text_lower(t) == [i \in 1..Len(t) |-> lower(t[i])]

\* sub in text, for a phrase that is one piece.
contains(t, sub) == \E i \in 1..Len(t) : t[i] = sub

-----------------------------------------------------------------------------
(* clean_text applied to every text over Alphabet of at most MaxLen pieces *)

MaxLen == 5

Alphabet == {"a", " ", "\n", "\t", ZWSP, NBSP}

Texts(n) == UNION {[1..k -> Alphabet] : k \in 0..n}

ScrapeIdle == doc = <<>> /\ page = <<>> /\ content_divs = <<>>
MainIdle ==
    /\ mode = "idle" /\ links_file = "exists" /\ urls = <<>> /\ mpc = "idle" /\ idx = 0
    /\ results = <<>> /\ failed_urls = <<>> /\ page_counter = 1 /\ files = <<>>
    /\ fetches = <<>> /\ sleeps = 0 /\ metadata = <<>>
ClassifyIdle == data = None /\ page_type = None
CleanIdle == s = <<>> /\ cleaned = <<>>
UploadAtRest ==
    /\ config = "ok" /\ json_paths = <<>> /\ pc = "idle" /\ jp = 0
    /\ remote_folders = 0 /\ folder_i = 0
    /\ uploaded_count = 0 /\ failed_count = 0 /\ img_attempt = 1 /\ attempt = 1
    /\ slug_i = 1 /\ last_err = "" /\ image_asset = FALSE /\ img_err = ""
    /\ calls = {} /\ log = <<>> /\ story_requests = 0 /\ signed_payload = ""
    /\ story_err = ""
UploadIdle == script = "uploader" /\ UploadAtRest
FolderIdle ==
    /\ space = [front |-> <<>>, fillers |-> 0, back |-> <<>>, has_total |-> TRUE]
    /\ path_parts = <<>> /\ returned = <<>>

InitClean ==
    /\ s \in Texts(MaxLen)
    /\ cleaned = <<>>
    /\ ClassifyIdle
    /\ ScrapeIdle
    /\ UploadIdle
    /\ MainIdle
    /\ FolderIdle

\* clean_text(s), then clean_text of that result.
CleanText ==
    /\ Len(cleaned) < 2
    /\ cleaned' = Append(cleaned, clean_text(IF cleaned = <<>> THEN s ELSE cleaned[Len(cleaned)]))
    /\ UNCHANGED <<s, data, page_type, doc, page, content_divs>>
    /\ UNCHANGED <<mainVars, uploadVars, folderVars>>

NextClean == CleanText

SpecClean == InitClean /\ [][NextClean]_vars

\* C5: clean_text is idempotent, and its result holds no zero-width space, no
\* non-breaking space, no two adjacent whitespace characters and neither
\* starts nor ends with whitespace.
C5_CleanTextIdempotent ==
    /\ Len(cleaned) >= 1 =>
        LET r == cleaned[1] IN
        /\ \A i \in 1..Len(r) : r[i] # ZWSP /\ r[i] # NBSP
        /\ \A i \in 1..(Len(r) - 1) : ~(IsSpace(r[i]) /\ IsSpace(r[i + 1]))
        /\ r # <<>> => ~IsSpace(r[1]) /\ ~IsSpace(r[Len(r)])
    /\ Len(cleaned) = 2 => cleaned[2] = cleaned[1]

\* A text with whitespace on both sides of a zero-width space between two
\* letters, cleaned twice.
C5_Witness ==
    /\ Len(cleaned) = 2
    /\ \E i \in 2..(Len(s) - 3) :
          /\ s[i - 1] = "a"
          /\ IsSpace(s[i]) /\ s[i + 1] = ZWSP /\ IsSpace(s[i + 2])
          /\ s[i + 3] = "a"
    /\ cleaned[1] = <<"a", " ", "a">>

-----------------------------------------------------------------------------
(* classify_page_type applied to every combination of the fields it reads  *)

MaxFaculty == 10

\* The mutant of classify_page_type whose multi_specialty threshold is off by
\* one (count >= 3).
classify_page_type_ge3(d) ==
    IF d.subsection_links.present THEN "parent_overview"
    ELSE IF ~d.has_h1_title THEN "service_complex"
    ELSE IF d.body_content.has_collapsible_sections THEN "service_complex"
    ELSE IF d.faculty_links.count >= 3 THEN "multi_specialty"
    ELSE IF d.faculty_links.count = 1 /\ ~d.appointment_section.present THEN "simple"
    ELSE IF d.body_content.has_subheadings /\ d.faculty_links.count = 0 THEN "structured"
    ELSE "standard"

\* The mutant of classify_page_type that tests the faculty count before the
\* h1 and collapsible rules.
classify_page_type_faculty_first(d) ==
    IF d.subsection_links.present THEN "parent_overview"
    ELSE IF d.faculty_links.count > 3 THEN "multi_specialty"
    ELSE IF ~d.has_h1_title THEN "service_complex"
    ELSE IF d.body_content.has_collapsible_sections THEN "service_complex"
    ELSE IF d.faculty_links.count = 1 /\ ~d.appointment_section.present THEN "simple"
    ELSE IF d.body_content.has_subheadings /\ d.faculty_links.count = 0 THEN "structured"
    ELSE "standard"

\* The mutant of classify_page_type that tests the h1 before the subsection
\* links.
classify_page_type_h1_first(d) ==
    IF ~d.has_h1_title THEN "service_complex"
    ELSE IF d.subsection_links.present THEN "parent_overview"
    ELSE IF d.body_content.has_collapsible_sections THEN "service_complex"
    ELSE IF d.faculty_links.count > 3 THEN "multi_specialty"
    ELSE IF d.faculty_links.count = 1 /\ ~d.appointment_section.present THEN "simple"
    ELSE IF d.body_content.has_subheadings /\ d.faculty_links.count = 0 THEN "structured"
    ELSE "standard"

classify_page_type(d) ==
    IF d.subsection_links.present THEN "parent_overview"
    ELSE IF ~d.has_h1_title THEN "service_complex"
    ELSE IF d.body_content.has_collapsible_sections THEN "service_complex"
    ELSE IF d.faculty_links.count > 3 THEN "multi_specialty"
    ELSE IF d.faculty_links.count = 1 /\ ~d.appointment_section.present THEN "simple"
    ELSE IF d.body_content.has_subheadings /\ d.faculty_links.count = 0 THEN "structured"
    ELSE "standard"

\* The records handed to classify_page_type: the six fields it reads, and two
\* it does not (has_bullet_lists, word_count).
ClassifyInputs ==
    { [has_h1_title |-> h1,
       body_content |-> [has_collapsible_sections |-> col, has_subheadings |-> sub,
                         has_bullet_lists |-> bul, word_count |-> wc],
       subsection_links |-> [present |-> ss],
       faculty_links |-> [count |-> n],
       appointment_section |-> [present |-> ap]] :
        h1 \in BOOLEAN, col \in BOOLEAN, sub \in BOOLEAN, bul \in BOOLEAN, wc \in {0, 7},
        ss \in BOOLEAN, n \in 0..MaxFaculty, ap \in BOOLEAN }

InitClassify ==
    /\ data \in ClassifyInputs
    /\ page_type = None
    /\ CleanIdle
    /\ ScrapeIdle
    /\ UploadIdle
    /\ MainIdle
    /\ FolderIdle

ClassifyPage ==
    /\ page_type = None
    /\ page_type' = classify_page_type(data)
    /\ UNCHANGED <<s, cleaned, data, doc, page, content_divs>>
    /\ UNCHANGED <<mainVars, uploadVars, folderVars>>

NextClassify == ClassifyPage

SpecClassify == InitClassify /\ [][NextClassify]_vars

PageTypes ==
    {"parent_overview", "service_complex", "multi_specialty", "simple", "structured", "standard"}

\* The ordered decision list of the specification: rule i is <<condition, result>>.
Rules(h1, col, sub, ss, n, ap) ==
    << <<ss, "parent_overview">>,
       <<~h1, "service_complex">>,
       <<col, "service_complex">>,
       <<n > 3, "multi_specialty">>,
       <<n = 1 /\ ~ap, "simple">>,
       <<sub /\ n = 0, "structured">>,
       <<TRUE, "standard">> >>

FirstMatch(rules) ==
    LET i == CHOOSE k \in 1..Len(rules) :
                 rules[k][1] /\ \A j \in 1..(k - 1) : ~rules[j][1]
    IN rules[i][2]

\* C1: classify_page_type returns the result of the first matching rule of the
\* ordered list, one of the six literals, whatever the other fields hold.
C1_ClassifyFirstMatch ==
    page_type # None =>
        /\ page_type \in PageTypes
        /\ page_type = FirstMatch(Rules(data.has_h1_title,
                                        data.body_content.has_collapsible_sections,
                                        data.body_content.has_subheadings,
                                        data.subsection_links.present,
                                        data.faculty_links.count,
                                        data.appointment_section.present))

\* A page with an h1, no subsection links, nothing collapsible and exactly
\* three faculty links, classified by the last rule.
C1_Witness ==
    /\ page_type = "standard"
    /\ data.has_h1_title
    /\ data.faculty_links.count = 3
    /\ data.body_content.has_subheadings
    /\ data.body_content.has_bullet_lists

\* C3: without subsection links, a page with no h1 or with collapsible
\* sections is service_complex whatever its faculty count, appointment
\* section and subheadings.
C3_ServiceComplexBeforeFaculty ==
    (/\ page_type # None
     /\ ~data.subsection_links.present
     /\ (~data.has_h1_title \/ data.body_content.has_collapsible_sections))
        => page_type = "service_complex"

\* A page with no h1 and ten faculty links, classified.
C3_Witness ==
    /\ page_type = "service_complex"
    /\ ~data.has_h1_title
    /\ ~data.body_content.has_collapsible_sections
    /\ data.faculty_links.count = 10


-----------------------------------------------------------------------------
(* The parsed document                                                     *)
(*                                                                         *)
(* doc is the sequence of the document's elements in document order; node  *)
(* 0 is the soup itself.  An element's parent is an earlier element or 0,  *)
(* its text is its own text node (its first child), and its class, id and  *)
(* href are texts (<<>>: no such attribute, or an empty one; has_href      *)
(* tells an empty href from none).                                         *)

El(tag) ==
    [tag |-> tag, parent |-> 0, cls |-> <<>>, id |-> <<>>, role |-> "",
     has_href |-> FALSE, href |-> <<>>, src |-> <<>>, text |-> <<>>]

RECURSIVE ancestors(_, _)
ancestors(d, j) ==
    IF j = 0 \/ d[j].parent = 0 THEN {}
    ELSE {d[j].parent} \cup ancestors(d, d[j].parent)

\* j is a descendant of node i (every element is one of the soup's).
InSubtree(d, i, j) == i = 0 \/ i \in ancestors(d, j)

Indices(d) == [k \in 1..Len(d) |-> k]

\* node.find_all(...): the descendants of i that satisfy P, in document order.
find_all(d, i, P(_)) == SelectSeq(Indices(d), LAMBDA j : InSubtree(d, i, j) /\ P(j))

\* node.find(...): the first of them, or 0 (None).
find(d, i, P(_)) ==
    LET r == find_all(d, i, P) IN IF r = <<>> THEN 0 ELSE r[1]

RECURSIVE join_from(_, _, _)
join_from(d, i, k) ==
    IF k > Len(d) THEN <<>>
    ELSE (IF k = i \/ InSubtree(d, i, k) THEN d[k].text ELSE <<>>) \o join_from(d, i, k + 1)

\* node.get_text(): the text of the node and of its descendants, in order.
get_text(d, i) == join_from(d, i, 1)

\* str(x).lower() holds word, for a class or id attribute x.
attr_has(x, word) == contains(text_lower(x), word)

-----------------------------------------------------------------------------
(* The extractors of akuh_scraper.py                                       *)

extract_title(d) ==
    LET h1 == find(d, 0, LAMBDA j : d[j].tag = "h1")
        h2 == find(d, 0, LAMBDA j : d[j].tag = "h2")
    IN IF h1 # 0 THEN clean_text(get_text(d, h1))
       ELSE IF h2 # 0 THEN clean_text(get_text(d, h2))
       ELSE <<"Untitled">>

\* soup.select_one(selector) for the five selectors, tried in order.
Selectors ==
    << [tag |-> "div", cls |-> <<"Content", "Main">>, role |-> ""],       \* div.ContentMain
       [tag |-> "div", cls |-> <<"Main", "Content", "Zone">>, role |-> ""], \* div.MainContentZone
       [tag |-> "div", cls |-> <<>>, role |-> "main"],                     \* div[role="main"]
       [tag |-> "article", cls |-> <<>>, role |-> ""],
       [tag |-> "main", cls |-> <<>>, role |-> ""] >>

\* The classes of a class attribute: its whitespace-separated words.
RECURSIVE class_list(_, _)
class_list(x, word) ==
    IF x = <<>> THEN (IF word = <<>> THEN <<>> ELSE <<word>>)
    ELSE IF IsSpace(Head(x))
         THEN (IF word = <<>> THEN <<>> ELSE <<word>>) \o class_list(Tail(x), <<>>)
    ELSE class_list(Tail(x), Append(word, Head(x)))

\* A class selector matches an element that has the class among its classes.
has_class(x, cls) == \E k \in 1..Len(class_list(x, <<>>)) : class_list(x, <<>>)[k] = cls

select_one(d, sel) ==
    find(d, 0, LAMBDA j : /\ d[j].tag = sel.tag
                          /\ sel.cls # <<>> => has_class(d[j].cls, sel.cls)
                          /\ sel.role # "" => d[j].role = sel.role)

RECURSIVE first_selected(_, _)
first_selected(d, k) ==
    IF k > Len(Selectors) THEN 0
    ELSE IF select_one(d, Selectors[k]) # 0 THEN select_one(d, Selectors[k])
    ELSE first_selected(d, k + 1)

\* soup.body if soup.body else soup
body_or_soup(d) == find(d, 0, LAMBDA j : d[j].tag = "body")

\* The content region of extract_body_content (lines 78-94).
body_content_div(d) ==
    LET sel == first_selected(d, 1)
        fallback == find(d, 0, LAMBDA j :
            /\ d[j].tag = "div"
            /\ \E c \in {"content", "main", "body", "article"} : attr_has(d[j].cls, c)
            /\ \E k \in 1..Len(d) : InSubtree(d, j, k) /\ d[k].tag \in {"p", "h1", "h2"})
    IN IF sel # 0 THEN sel
       ELSE IF fallback # 0 THEN fallback
       ELSE body_or_soup(d)

\* The content region of extract_subsection_links (lines 250-258).
subsection_content_div(d) ==
    LET sel == first_selected(d, 1)
    IN IF sel # 0 THEN sel ELSE body_or_soup(d)

EXCLUDED_SECTIONS ==
    {"Resources and Information", "Quick Links", "Website Policies",
     "© The Aga Khan University Hospital"}

RECURSIVE join(_, _)
join(parts, sep) ==
    IF parts = <<>> THEN <<>>
    ELSE IF Len(parts) = 1 THEN parts[1]
    ELSE parts[1] \o sep \o join(Tail(parts), sep)

\* len(c.split()) of every piece of Vocabulary: a word starts at each
\* character that is not whitespace and follows whitespace or nothing.
WordsOf ==
    [w \in Vocabulary |->
        Cardinality({i \in 1..Len(spelling(w)) :
            /\ ~IsSpace(spelling(w)[i])
            /\ i = 1 \/ IsSpace(spelling(w)[i - 1])})]

\* The words of a piece; a piece of one character that is no whitespace is
\* (part of) one word.
piece_words(c) == IF c \in Vocabulary THEN WordsOf[c] ELSE 1

\* len(text.split())
RECURSIVE word_count(_, _)
word_count(t, in_word) ==
    IF t = <<>> THEN 0
    ELSE IF IsSpace(Head(t)) THEN word_count(Tail(t), FALSE)
    ELSE (IF in_word THEN piece_words(Head(t)) - 1 ELSE piece_words(Head(t)))
         + word_count(Tail(t), TRUE)

RECURSIVE texts_of(_, _)
texts_of(d, nodes) ==
    IF nodes = <<>> THEN <<>>
    ELSE <<clean_text(get_text(d, Head(nodes)))>> \o texts_of(d, Tail(nodes))

\* The paragraphs extract_body_content keeps (lines 97-103).
kept_paragraphs(d, content_div) ==
    SelectSeq(texts_of(d, find_all(d, content_div, LAMBDA j : d[j].tag = "p")), LAMBDA t :
        /\ t # <<>>
        /\ text_len(t) > 10
        /\ ~\E e \in EXCLUDED_SECTIONS : contains(t, e))

extract_body_content(d) ==
    LET content_div == body_content_div(d)
        paragraphs == kept_paragraphs(d, content_div)
        main_text == join(paragraphs, <<"\n", "\n">>)
        subheadings == SelectSeq(<<"h2", "h3", "h4", "h5", "h6">>, LAMBDA tag :
            find(d, content_div, LAMBDA j : d[j].tag = tag) # 0)
    IN [main_paragraphs |-> main_text,
        word_count |-> word_count(main_text, FALSE),
        has_subheadings |-> subheadings # <<>>,
        subheading_tags |-> subheadings,
        has_bullet_lists |-> find(d, content_div, LAMBDA j : d[j].tag \in {"ul", "ol"}) # 0,
        has_collapsible_sections |->
            find(d, content_div, LAMBDA j : d[j].tag = "h4" /\ attr_has(d[j].id, "collapse")) # 0]

\* sub in text, for a sub of several pieces.
contains_run(t, sub) ==
    \E i \in 1..Len(t) : i + Len(sub) - 1 <= Len(t) /\ SubSeq(t, i, i + Len(sub) - 1) = sub

\* strong.find_parent(['div', 'p']): the nearest enclosing div or p, or 0.
find_parent(d, j, tags) ==
    LET up == { a \in ancestors(d, j) : d[a].tag \in tags }
    IN IF up = {} THEN 0 ELSE CHOOSE a \in up : \A b \in up : b <= a

\* The first tier of the combined script (lines 171-181 of
\* akuh_scrape_and_upload.py): a strong with the phrase whose enclosing block
\* holds the hotline number, written with or without a space, or the app's name.
strong_tier(d, content_div) ==
    \E j \in 1..Len(d) :
        /\ InSubtree(d, content_div, j) /\ d[j].tag = "strong"
        /\ contains(clean_text(get_text(d, j)), "Request an Appointment")
        /\ \E parent \in {find_parent(d, j, {"div", "p"})} :
              /\ parent # 0
              /\ \E parent_text \in {clean_text(get_text(d, parent))} :
                    \/ contains(parent_text, "(021)111911911")
                    \/ contains_run(parent_text, <<"(021)", " ", "111911911">>)
                    \/ contains(parent_text, "Family Hifazat")

\* The second tier (lines 184-191): one kept paragraph with the phrase and
\* the hotline number, the app's name, "Click here" or "call to book".
paragraph_tier(paragraphs) ==
    \E k \in 1..Len(paragraphs) :
        /\ contains(paragraphs[k], "Request an Appointment")
        /\ \E w \in {"(021)111911911", "Family Hifazat", "Click here", "call to book"} :
              contains(paragraphs[k], w)

\* The third tier (lines 196-200): the joined text with the phrase and the
\* hotline number or the app's name.
main_text_tier(main_text) ==
    /\ contains(main_text, "Request an Appointment")
    /\ contains(main_text, "(021)111911911") \/ contains(main_text, "Family Hifazat")

\* has_appointment_section of the combined script's extract_body_content: a
\* tier is consulted only while the flag is still False.
has_appointment_section(d) ==
    \E content_div \in {body_content_div(d)} :
        \E paragraphs \in {kept_paragraphs(d, content_div)} :
            IF strong_tier(d, content_div) THEN TRUE
            ELSE IF paragraph_tier(paragraphs) THEN TRUE
            ELSE main_text_tier(join(paragraphs, <<"\n", "\n">>))

\* The body record of the combined script: that of the scraper and the flag.
with_appointment_flag(b, flag) ==
    [main_paragraphs |-> b.main_paragraphs,
     has_appointment_section |-> flag,
     word_count |-> b.word_count,
     has_subheadings |-> b.has_subheadings,
     subheading_tags |-> b.subheading_tags,
     has_bullet_lists |-> b.has_bullet_lists,
     has_collapsible_sections |-> b.has_collapsible_sections]

\* re.search(r'[?&]Spec=([^&]+)', url): the piece after "?Spec=" or "&Spec=".
RECURSIVE extract_specialty_from_url(_)
extract_specialty_from_url(url) ==
    IF Len(url) < 2 THEN ""
    ELSE IF Head(url) \in {"?Spec=", "&Spec="} /\ url[2] # "&" THEN url[2]
    ELSE extract_specialty_from_url(Tail(url))

is_findadoctor(href) == contains(href, "/findadoctor.aspx")

link_record(d, j) ==
    [text |-> clean_text(get_text(d, j)), url |-> d[j].href,
     specialty |-> extract_specialty_from_url(d[j].href)]

RECURSIVE links_of(_, _)
links_of(d, nodes) ==
    IF nodes = <<>> THEN <<>> ELSE <<link_record(d, Head(nodes))>> \o links_of(d, Tail(nodes))

\* The first a[href] inside each of the nodes idx, where there is one.
RECURSIVE first_links(_, _)
first_links(d, nodes) ==
    IF nodes = <<>> THEN <<>>
    ELSE LET a == find(d, Head(nodes), LAMBDA j : d[j].tag = "a" /\ d[j].has_href)
         IN (IF a # 0 THEN <<a>> ELSE <<>>) \o first_links(d, Tail(nodes))

\* "Remove duplicates" (lines 160-167): the first entry of each (url, text).
RECURSIVE remove_duplicates(_, _)
remove_duplicates(links, seen) ==
    IF links = <<>> THEN <<>>
    ELSE LET key == <<Head(links).url, Head(links).text>>
         IN IF key \in seen THEN remove_duplicates(Tail(links), seen)
            ELSE <<Head(links)>> \o remove_duplicates(Tail(links), seen \cup {key})

\* The mutant of unique_links that keeps every collected link.
unique_links_keep_all(links) == links

unique_links(links) == remove_duplicates(links, {})

\* The mutant of link_pattern that tells single from multiple at 2.
link_pattern_off_by_one(n) == IF n = 0 THEN "none" ELSE IF n <= 2 THEN "single" ELSE "multiple"

link_pattern(n) == IF n = 1 THEN "single" ELSE IF n > 1 THEN "multiple" ELSE "none"

extract_faculty_links(d) ==
    LET pattern1 == SelectSeq(first_links(d, find_all(d, 0, LAMBDA j : d[j].tag = "h4")),
                              LAMBDA a : is_findadoctor(d[a].href))
        \* "link not in [l.get('_elem') for l in faculty_links]" holds of every
        \* link: no collected entry has an '_elem' key.
        pattern2 == find_all(d, 0, LAMBDA j :
            /\ d[j].tag = "a" /\ d[j].has_href
            /\ is_findadoctor(d[j].href)
            /\ LET text == clean_text(get_text(d, j))
               IN \/ contains(text, "Meet our")
                  \/ contains(text, "Find a Doctor")
                  \/ contains(text_lower(text), "faculty"))
        links == unique_links(links_of(d, pattern1 \o pattern2))
    IN [count |-> Len(links), pattern |-> link_pattern(Len(links)), links |-> links]


\* re.search(r'\(\d{3}\)\d{3}\d{6}', text): the first piece that is such a number.
is_phone(c) == c \in {"(021)111911911", "(042)123456789"}

phone_match(t) ==
    LET hits == SelectSeq(t, is_phone) IN IF hits = <<>> THEN "" ELSE hits[1]

\* The mutant of no_appointment whose heading is filled in from the start.
no_appointment_headed ==
    [present |-> FALSE,
     components |->
        [heading |-> "Request an Appointment",
         click_here_link |-> [present |-> FALSE, text |-> <<>>, url |-> <<>>],
         phone_number |-> "",
         family_hifazat |-> [main_link_present |-> FALSE, google_play_button |-> FALSE,
                             app_store_button |-> FALSE]]]

\* The dictionary extract_appointment_section starts from (lines 192-208).
no_appointment ==
    [present |-> FALSE,
     components |->
        [heading |-> "",
         click_here_link |-> [present |-> FALSE, text |-> <<>>, url |-> <<>>],
         phone_number |-> "",
         family_hifazat |-> [main_link_present |-> FALSE, google_play_button |-> FALSE,
                             app_store_button |-> FALSE]]]

\* The mutant of appointment_paragraphs that reads the text of the paragraph
\* itself, without that of the elements inside it.
appointment_paragraphs_own_text(d) ==
    find_all(d, 0, LAMBDA j :
        /\ d[j].tag = "p"
        /\ contains(text_lower(clean_text(d[j].text)), "request an appointment"))

\* The paragraphs the loop of extract_appointment_section stops at: those
\* whose cleaned text asks to request an appointment (line 213).
appointment_paragraphs(d) ==
    find_all(d, 0, LAMBDA j :
        /\ d[j].tag = "p"
        /\ LET text == clean_text(get_text(d, j))
           IN \/ contains(text, "Request an Appointment")
              \/ contains(text_lower(text), "request an appointment"))

\* What the body of the loop records for paragraph p (lines 214-241).
appointment_of(d, p) ==
    LET text == clean_text(get_text(d, p))
        click_link == find(d, p, LAMBDA j : d[j].tag = "a" /\ d[j].has_href)
        imgs == find_all(d, p, LAMBDA j : d[j].tag = "img")
    IN [present |-> TRUE,
        components |->
           [heading |-> "Request an Appointment",
            click_here_link |->
                IF click_link # 0
                THEN [present |-> TRUE, text |-> clean_text(get_text(d, click_link)),
                      url |-> d[click_link].href]
                ELSE [present |-> FALSE, text |-> <<>>, url |-> <<>>],
            phone_number |-> phone_match(text),
            family_hifazat |->
               [main_link_present |->
                    \/ contains(text, "Family Hifazat")
                    \/ contains(text_lower(text), "family hifazat"),
                google_play_button |-> \E k \in 1..Len(imgs) :
                    \/ attr_has(d[imgs[k]].src, "google play")
                    \/ attr_has(d[imgs[k]].src, "playstore"),
                app_store_button |-> \E k \in 1..Len(imgs) :
                    \/ attr_has(d[imgs[k]].src, "app store")
                    \/ attr_has(d[imgs[k]].src, "appstore")]]]

\* The mutant of extract_appointment_section that lets the last matching
\* paragraph decide.
extract_appointment_section_last(d) ==
    LET hits == appointment_paragraphs(d)
    IN IF hits = <<>> THEN no_appointment ELSE appointment_of(d, hits[Len(hits)])

\* The loop breaks at the first matching paragraph (line 241).
extract_appointment_section(d) ==
    LET hits == appointment_paragraphs(d)
    IN IF hits = <<>> THEN no_appointment ELSE appointment_of(d, hits[1])

NavWords == {"nav", "menu", "sidebar", "header", "footer"}

\* ul.find_parent(class_=...): an ancestor whose class holds a navigation word.
in_navigation(d, ul) ==
    \E a \in ancestors(d, ul) : \E w \in NavWords : attr_has(d[a].cls, w)

\* The mutant of keep_subsection_link that keeps every link with a text.
keep_subsection_link_any(text) == text # <<>>

\* "Filter: meaningful department/service links" (line 273).
keep_subsection_link(text) == text # <<>> /\ text_len(text) > 2 /\ Head(text) # "#"

RECURSIVE list_links(_, _)
list_links(d, uls) ==
    IF uls = <<>> THEN <<>>
    ELSE LET ul == Head(uls)
             lis == SelectSeq(Indices(d), LAMBDA j : d[j].parent = ul /\ d[j].tag = "li")
             links == SelectSeq(first_links(d, lis),
                                LAMBDA a : keep_subsection_link(clean_text(get_text(d, a))))
         IN (IF in_navigation(d, ul) THEN <<>>
             ELSE [k \in 1..Len(links) |->
                      [text |-> clean_text(get_text(d, links[k])), url |-> d[links[k]].href]])
            \o list_links(d, Tail(uls))

extract_subsection_links(d) ==
    LET content_div == subsection_content_div(d)
        links == list_links(d, find_all(d, content_div, LAMBDA j : d[j].tag = "ul"))
    IN [present |-> Len(links) > 0, count |-> Len(links), links |-> links]

\* href.startswith('http'), by the first piece of the href.
startswith_http(href) == href # <<>> /\ Head(href) \in {"http://", "https://", "httpdocs"}

\* 'aku.edu' in href, by the pieces that hold it.
has_aku_edu(href) ==
    \E i \in 1..Len(href) : href[i] \in {"aku.edu", "hospitals.aku.edu", "ref=aku.edu"}

\* href.endswith(('.pdf', '.doc', '.docx', '.xlsx'))
endswith_document(href) ==
    href # <<>> /\ href[Len(href)] \in {".pdf", ".doc", ".docx", ".xlsx"}

link_type(href) ==
    IF startswith_http(href) /\ ~has_aku_edu(href) THEN "external"
    ELSE IF endswith_document(href) THEN "document"
    ELSE "internal"

\* 'breadcrumb' in str(link.parent.get('class', '')); the soup has no class.
parent_is_breadcrumb(d, j) ==
    d[j].parent # 0 /\ contains(d[d[j].parent].cls, "breadcrumb")

extract_external_links(d) ==
    LET kept == find_all(d, 0, LAMBDA j :
            /\ d[j].tag = "a" /\ d[j].has_href
            /\ clean_text(get_text(d, j)) # <<>>
            /\ d[j].href # <<>>
            /\ ~is_findadoctor(d[j].href)
            /\ ~parent_is_breadcrumb(d, j))
    IN [k \in 1..Len(kept) |->
          [text |-> clean_text(get_text(d, kept[k])), url |-> d[kept[k]].href,
           type |-> link_type(d[kept[k]].href)]]

\* data['page_type_classification'] = classify_page_type(data)
\* ' > '.join of the texts of the links of the first breadcrumb-classed div,
\* or of the first such nav when there is no such div.
extract_breadcrumb(d) ==
    LET div == find(d, 0, LAMBDA j : d[j].tag = "div" /\ attr_has(d[j].cls, "breadcrumb"))
        nav == find(d, 0, LAMBDA j : d[j].tag = "nav" /\ attr_has(d[j].cls, "breadcrumb"))
        breadcrumb_elem == IF div # 0 THEN div ELSE nav
    IN IF breadcrumb_elem = 0 THEN <<>>
       ELSE join(texts_of(d, find_all(d, breadcrumb_elem, LAMBDA j : d[j].tag = "a")),
                 <<" ", ">", " ">>)

with_classification(r) ==
    [url |-> r.url,
     page_title |-> r.page_title,
     breadcrumb |-> r.breadcrumb,
     has_h1_title |-> r.has_h1_title,
     body_content |-> r.body_content,
     subsection_links |-> r.subsection_links,
     faculty_links |-> r.faculty_links,
     appointment_section |-> r.appointment_section,
     external_links |-> r.external_links,
     page_type_classification |-> classify_page_type(r)]

\* The record scrape_page(url) assembles from the fetched document: in the
\* combined script the body carries has_appointment_section.  No extractor
\* raises on a parsed document, so the record is always returned.
scrape_page(scr, url, d) ==
    with_classification(
        [url |-> url,
         page_title |-> extract_title(d),
         breadcrumb |-> extract_breadcrumb(d),
         has_h1_title |-> find(d, 0, LAMBDA j : d[j].tag = "h1") # 0,
         body_content |->
            IF scr = "combined"
            THEN with_appointment_flag(extract_body_content(d), has_appointment_section(d))
            ELSE extract_body_content(d),
         subsection_links |-> extract_subsection_links(d),
         faculty_links |-> extract_faculty_links(d),
         appointment_section |-> extract_appointment_section(d),
         external_links |-> extract_external_links(d)])


-----------------------------------------------------------------------------
(* The documents scrape_page is applied to                                 *)

\* A subtree (parent 0: its place) put under node `under` of a document that
\* holds `base` elements so far.
Under(frag, base, under) ==
    [i \in 1..Len(frag) |->
        [frag[i] EXCEPT !.parent = IF @ = 0 THEN under ELSE @ + base]]

RECURSIVE Compose(_, _, _)
Compose(d, under, frags) ==
    IF frags = <<>> THEN d
    ELSE Compose(d \o Under(Head(frags), Len(d), under), under, Tail(frags))

Child(e, parent) == [e EXCEPT !.parent = parent]
WithText(tag, text) == [El(tag) EXCEPT !.text = text]
WithClass(tag, cls) == [El(tag) EXCEPT !.cls = cls]
Link(href, text) == [El("a") EXCEPT !.has_href = TRUE, !.href = href, !.text = text]

\* Where the page's content hangs: <<elements, the element it hangs under>>.
Wraps ==
    { <<<<>>, 0>>,
      <<<<El("body")>>, 1>>,
      <<<<El("body"), Child(WithClass("div", <<"Content", "Main">>), 1)>>, 2>>,
      <<<<El("body"), Child(WithClass("div", <<"Content", "Main", " ", "page">>), 1)>>, 2>>,
      <<<<El("body"), Child(WithClass("div", <<"page", "-", "content">>), 1)>>, 2>> }

HeadingFrags == { <<>>, <<WithText("h1", <<"Cardiology">>)>>, <<WithText("h2", <<"Overview">>)>> }

DeptLink == Link(<<"/departments/cardiology">>, <<"Cardiology", " ", "Clinic">>)

ListFrags ==
    { <<>>,
      <<El("ul"), Child(El("li"), 1), Child(DeptLink, 2)>>,
      <<WithClass("div", <<"main", "-", "nav">>), Child(El("ul"), 1), Child(El("li"), 2),
        Child(DeptLink, 3)>>,
      <<El("ul"), Child(El("li"), 1), Child(Link(<<"/x">>, <<"ab">>), 2)>> }

MaxLinks == 10

Specialty(k) == "S" \o ToString(k)

FacultyLink(k) ==
    Link(<<"/findadoctor.aspx", "?Spec=", Specialty(k)>>, <<"Meet our", " ", Specialty(k), " ", "faculty">>)

FacultyFrags == { [k \in 1..n |-> FacultyLink(k)] : n \in 0..MaxLinks }

AppointmentFrags ==
    { <<>>,
      <<WithText("p", <<"Request an Appointment", ":", " ", "call", " ", "(021)111911911">>)>> }

SectionFrags ==
    { <<>>,
      <<[El("h4") EXCEPT !.id = <<"collapse", "One">>, !.text = <<"Services">>]>>,
      <<WithText("h3", <<"Services">>)>> }

\* Pages that differ in every field the classification reads.
DocsClassify ==
    { Compose(w[1], w[2], <<h, l, f, a, c>>) :
        w \in Wraps, h \in HeadingFrags, l \in ListFrags, f \in FacultyFrags,
        a \in AppointmentFrags, c \in SectionFrags }

MaxHeadings == 3

HeadingTexts == { <<>>, <<" ", NBSP, ZWSP>>, <<"Cardiology">> }

HeadingShapes == { WithText(tag, text) : tag \in {"h1", "h2", "span"}, text \in HeadingTexts }

\* A span hangs under the element before it, a heading under the soup.
Nest(shapes) ==
    [k \in 1..Len(shapes) |->
        IF shapes[k].tag = "span" /\ k > 1 THEN Child(shapes[k], k - 1) ELSE shapes[k]]

DocsTitle == { Nest(sh) : sh \in UNION {[1..n -> HeadingShapes] : n \in 0..MaxHeadings} }

MaxLinkItems == 2

LinkItems ==
    { <<in_h4, Link(href, text)>> :
        in_h4 \in BOOLEAN,
        href \in { <<"/findadoctor.aspx", "?Spec=", "Cardiology">>, <<"/findadoctor.aspx">>,
                   <<"/services">> },
        text \in { <<"Meet our", " ", "Faculty">>, <<"Dr", " ", "A">>, <<"Find a Doctor">> } }

ItemFrag(item) == IF item[1] THEN <<El("h4"), Child(item[2], 1)>> ELSE <<item[2]>>

\* Pages of doctor-search and other links, inside h4 headings and outside.
DocsFaculty ==
    { Compose(<<>>, 0, [k \in 1..Len(items) |-> ItemFrag(items[k])]) :
        items \in UNION {[1..n -> LinkItems] : n \in 0..MaxLinkItems} }

\* A doctor-search link, inside an h4 or not, for each spelling of the
\* phrases its text is searched for.
CaseTexts ==
    { <<"Meet our", " ", "team">>, <<"MEET OUR", " ", "team">>, <<"meet our", " ", "team">>,
      <<"Find a Doctor">>, <<"find a doctor">>, <<"Our", " ", "FACULTY">>,
      <<"Our", " ", "faculty">>, <<"Dr", " ", "A">> }

DocsFacultyCase ==
    { ItemFrag(<<in_h4, Link(<<"/findadoctor.aspx", "?Spec=", "Cardiology">>, text)>>) :
        in_h4 \in BOOLEAN, text \in CaseTexts }

\* The pages of the end-to-end scenario: an h1, paragraphs of which one asks
\* to request an appointment with the number and the app, alone, after a
\* paragraph that asks without them, or after another number, and two
\* doctor-search links; in the body, in a content region a selector or the
\* class of a div gives, and beside a list of links outside that region.
ScenarioParagraphs ==
    { << <<WithText("p", <<"Request an Appointment", " ", "(021)111911911", " ",
                           "Family Hifazat">>)>> >>,
      << <<WithText("p", <<"The", " ", "heart", " ", "centre">>)>>,
         <<WithText("p", <<"Please", " ", "Request an Appointment", ":", " ", "(021)111911911",
                           " ", "or", " ", "Family Hifazat">>)>>,
         <<WithText("h3", <<"Services">>)>>,
         <<WithText("p", <<"Open", " ", "daily">>)>> >>,
      << <<WithText("p", <<"Please", " ", "request an appointment">>)>>,
         <<WithText("p", <<"Request an Appointment", " ", "(021)111911911", " ",
                           "Family Hifazat">>)>>,
         <<WithText("p", <<"© The Aga Khan University Hospital">>)>> >>,
      << <<WithText("p", <<"Request an Appointment", " ", "(042)123456789", " ", "or", " ",
                           "(021)111911911", " ", "Family Hifazat">>)>> >> }

ScenarioLinks ==
    { <<in_h4, Link(<<"/findadoctor.aspx", "?Spec=", spec>>, text)>> :
        in_h4 \in BOOLEAN, spec \in {"Cardiology", "Surgery"},
        text \in { <<"Meet our", " ", "Faculty">>, <<"Dr", " ", "A">>, <<"Find a Doctor">> } }

DocsScenario ==
    { Compose(w[1], w[2],
              <<<<WithText("h1", h)>>>> \o ps \o <<ItemFrag(l1), ItemFrag(l2)>>) :
        w \in { <<<<El("body")>>, 1>>,
                <<<<El("body"), Child(WithClass("div", <<"Content", "Main">>), 1)>>, 2>>,
                <<<<El("body"), Child(WithClass("div", <<"page", "-", "content">>), 1)>>, 2>>,
                <<<<El("body"), Child(El("ul"), 1), Child(El("li"), 2), Child(DeptLink, 3),
                    Child(WithClass("div", <<"page", "-", "content">>), 1)>>, 5>> },
        h \in { <<"Cardiology">>, <<"Heart", NBSP, "Centre">> },
        ps \in ScenarioParagraphs, l1 \in ScenarioLinks, l2 \in ScenarioLinks }

\* Pages of links of every kind extract_external_links tells apart, plain,
\* directly inside a breadcrumb container, and deeper inside one.
MaxExtLinks == 2

ExtHrefs ==
    { <<"https://", "example.com", "/", "page">>,
      <<"https://", "example.com", "/", "ref=aku.edu">>,
      <<"https://", "example.com", "/", "report", ".pdf">>,
      <<"https://", "hospitals.aku.edu", "/", "report", ".pdf">>,
      <<"/", "files", "/", "form", ".docx">>,
      <<"/", "services">>,
      <<"httpdocs", "/", "a">>,
      <<"/findadoctor.aspx">>,
      <<>> }

ExtItems ==
    { <<Link(href, <<"More">>)>> : href \in ExtHrefs }
    \cup { <<Link(<<"/", "services">>, <<" ", NBSP>>)>>,
           <<WithClass("div", <<"breadcrumb">>), Child(Link(<<"/", "home">>, <<"Home">>), 1)>>,
           <<WithClass("div", <<"breadcrumb">>), Child(El("span"), 1),
             Child(Link(<<"/", "home">>, <<"Home">>), 2)>> }

DocsExternal ==
    { Compose(<<>>, 0, items) : items \in UNION {[1..n -> ExtItems] : n \in 0..MaxExtLinks} }

Img(src) == [El("img") EXCEPT !.src = src]

\* Paragraphs that ask to request an appointment, in three spellings, bare
\* or with a phone number, a link, the app's name and store badges; one that
\* has all of these but does not ask; one of an excluded section; and the
\* phrase in a strong inside a paragraph and inside a div.
AppointmentItems ==
    { <<WithText("p", <<"Request an Appointment">>)>>,
      <<WithText("p", <<"request an appointment", " ", "(042)123456789">>)>>,
      <<WithText("p", <<"Request an Appointment", ":", " ", "(021)111911911", " ">>),
        Child(Link(<<"/", "appointment">>, <<"Family Hifazat">>), 1),
        Child(Img(<<"/", "img", "/", "PlayStore", ".png">>), 1),
        Child(Img(<<"/", "img", "/", "app store", ".png">>), 1)>>,
      <<WithText("p", <<"REQUEST AN APPOINTMENT", " ", "FAMILY HIFAZAT", " ">>),
        Child(Img(<<"/", "img", "/", "google play", ".png">>), 1)>>,
      <<WithText("p", <<"Call", " ", "(021)111911911", " ", "or", " ">>),
        Child(Link(<<"/", "contact">>, <<"Click here">>), 1),
        Child(Img(<<"/", "img", "/", "appstore", ".png">>), 1)>>,
      <<WithText("p", <<"Request an Appointment", " ", "(042)123456789">>)>>,
      <<WithText("p", <<"Request an Appointment", ":", " ", "call to book">>)>>,
      <<WithText("p", <<"Quick Links", " ", "Request an Appointment", " ", "Family Hifazat">>)>>,
      <<El("p"), Child(WithText("strong", <<"Request an Appointment", ":">>), 1),
        Child(WithText("span", <<" ", "(021)111911911">>), 1)>>,
      <<El("div"), Child(WithText("strong", <<"Request an Appointment", ":">>), 1),
        Child(WithText("span", <<" ", "(021)", " ", "111911911">>), 1)>> }

MaxParagraphs == 2

DocsAppointment ==
    { Compose(<<El("body")>>, 1, items) :
        items \in UNION {[1..n -> AppointmentItems] : n \in 0..MaxParagraphs} }

\* List items: a department link; a link whose cleaned text is too short,
\* before a department link; a link that starts with '#'; an anchor without
\* href before a link; a nested list; a link of three characters.
LiFrags ==
    { <<El("li"), Child(DeptLink, 1)>>,
      <<El("li"), Child(Link(<<"/x">>, <<" ", "ab", NBSP>>), 1), Child(DeptLink, 1)>>,
      <<El("li"), Child(Link(<<"/top">>, <<"#", "top">>), 1)>>,
      <<El("li"), Child(WithText("a", <<"Surgery">>), 1),
        Child(Link(<<"/surgery">>, <<"Surgery">>), 1)>>,
      <<El("li"), Child(El("ul"), 1), Child(El("li"), 2),
        Child(Link(<<"/unit">>, <<"Heart", " ", "Unit">>), 3)>>,
      <<El("li"), Child(Link(<<"/eye">>, <<ZWSP, "Eye", " ">>), 1)>> }

MaxListItems == 2

\* Where a list stands: <<elements, the element the list hangs under, the
\* class of the list itself>>: in the body, under navigation-classed
\* elements, beside the content region, in it, and in one of a classed body.
ListPlaces ==
    { <<<<El("body")>>, 1, <<>>>>,
      <<<<El("body")>>, 1, <<"nav">>>>,
      <<<<El("body"), Child(WithClass("div", <<"Main", "-", "Nav">>), 1)>>, 2, <<>>>>,
      <<<<El("body"), Child(WithClass("div", <<"footer">>), 1), Child(El("div"), 2)>>, 3, <<>>>>,
      <<<<El("body"), Child(WithClass("div", <<"Content", "Main">>), 1), Child(El("div"), 1)>>,
        3, <<>>>>,
      <<<<El("body"), Child(WithClass("div", <<"Content", "Main">>), 1)>>, 2, <<>>>>,
      <<<<El("body"), Child(WithClass("div", <<"page", " ", "Content", "Main">>), 1),
          Child(El("div"), 1)>>, 3, <<>>>>,
      <<<<WithClass("body", <<"with", "-", "sidebar">>),
          Child(WithClass("div", <<"Content", "Main">>), 1)>>, 2, <<>>>> }

DocsLists ==
    { Compose(pl[1], pl[2], <<Compose(<<WithClass("ul", pl[3])>>, 1, lis)>>) :
        pl \in ListPlaces, lis \in UNION {[1..n -> LiFrags] : n \in 1..MaxListItems} }

Docs ==
    DocsClassify \cup DocsTitle \cup DocsFaculty \cup DocsFacultyCase \cup DocsScenario
        \cup DocsExternal \cup DocsAppointment \cup DocsLists

InitScrape ==
    /\ doc \in Docs
    /\ script \in {"scraper", "combined"}
    /\ page = <<>>
    /\ content_divs = <<>>
    /\ CleanIdle
    /\ ClassifyIdle
    /\ UploadAtRest
    /\ MainIdle
    /\ FolderIdle

\* The URL of the page scraped.
PageUrl == <<"https://", "hospitals.aku.edu", "/", "health-services", "/eye">>

\* scrape_page(url) of either script for a fetch that returned doc;
\* content_divs keeps the content region each of its two extractors located.
ScrapePage ==
    /\ page = <<>>
    /\ page' = <<scrape_page(script, PageUrl, doc)>>
    /\ content_divs' = <<body_content_div(doc), subsection_content_div(doc)>>
    /\ UNCHANGED <<s, cleaned, data, page_type, doc>>
    /\ UNCHANGED <<mainVars, uploadVars, folderVars>>

NextScrape == ScrapePage

SpecScrape == InitScrape /\ [][NextScrape]_vars


\* C2: a document that yields at least one subsection link is classified
\* parent_overview, whatever its h1, collapsible sections, faculty links,
\* appointment section and subheadings.
C2_SubsectionLinksDominate ==
    (page # <<>> /\ page[1].subsection_links.present)
        => page[1].page_type_classification = "parent_overview"

\* A page with a list of department links, no h1, a collapsible h4, an
\* appointment paragraph and ten faculty links, scraped.
C2_Witness ==
    /\ page # <<>>
    /\ page[1].subsection_links.count = 1
    /\ ~page[1].has_h1_title
    /\ page[1].body_content.has_collapsible_sections
    /\ page[1].appointment_section.present
    /\ page[1].faculty_links.count = 10

\* C4: extract_title returns a non-empty string for every document.
C4_TitleNonEmpty ==
    page # <<>> => page[1].page_title # <<>>

\* C6: the faculty links hold no two entries with the same (url, text), count
\* is their number, and pattern is none / single / multiple for a count of
\* 0 / 1 / more.
C6_FacultyLinksUnique ==
    page # <<>> =>
        LET f == page[1].faculty_links IN
        /\ \A i, j \in 1..Len(f.links) :
              (f.links[i].url = f.links[j].url /\ f.links[i].text = f.links[j].text) => i = j
        /\ f.count = Len(f.links)
        /\ f.pattern = "none" <=> f.count = 0
        /\ f.pattern = "single" <=> f.count = 1
        /\ f.pattern = "multiple" <=> f.count > 1

\* A page whose only link is a doctor-search link inside an h4 with the text
\* "Meet our Faculty": both patterns collect it, and one entry is kept.
C6_Witness ==
    /\ page # <<>>
    /\ Len(doc) = 2
    /\ doc[1].tag = "h4" /\ doc[2].tag = "a" /\ doc[2].parent = 1
    /\ is_findadoctor(doc[2].href)
    /\ contains(doc[2].text, "Meet our")
    /\ page[1].faculty_links.count = 1
    /\ page[1].faculty_links.pattern = "single"


-----------------------------------------------------------------------------
(* run_upload                                                              *)

CONTENT_PATH == <<"Automation", "health-services">>

RETRIES == 4        \* _req(..., retries=4)
MAX_RETRIES == 3    \* upload_image_to_storyblok(..., max_retries=3)
SLUGS == 3          \* [base_slug, base_slug-<random>, base_slug-<time>]

\* What one HTTP request can end in: a response or an exception of the
\* transport (SSLError, Timeout and ConnectionError behave alike).  The body
\* of a 200 is the JSON object the caller reads ("200"), the object {}, the
\* object {"story": {}}, the array [], null, or no JSON.
Responses ==
    {"200", "200_empty_object", "200_story_empty", "200_list", "200_null", "200_not_json",
     "422_slug", "422_other", "500", "ConnectionError"}

\* What the requests of ensure_content_folder_by_path are answered.
FolderResponses ==
    {"200", "200_empty_object", "200_story_empty", "200_list", "200_null", "500",
     "ConnectionError"}

\* What the request of create_signed_asset is answered: "200_no_key" is an
\* object with post_url and fields, and no key among the fields.
SignedResponses ==
    {"200", "200_no_key", "200_empty_object", "200_story_empty", "200_list", "200_null", "500",
     "ConnectionError"}

status_code(r) ==
    CASE r \in {"200", "200_no_key", "200_empty_object", "200_story_empty", "200_list",
                "200_null", "200_not_json"} -> 200
      [] r \in {"422_slug", "422_other"} -> 422
      [] r = "500" -> 500
      [] OTHER -> 0

\* _req raises requests.HTTPError for a status of 400 and more.
is_http_error(r) == status_code(r) >= 400

is_connection_error(r) == r = "ConnectionError"

\* bool(resp) of a requests.Response is resp.ok: the status is below 400.
response_bool(r) == status_code(r) # 0 /\ status_code(r) < 400

\* "already taken" in resp.text.lower() or "slug" in resp.text.lower()
slug_conflict_text(r) == r = "422_slug"

\* r.json() raises for a body that is no JSON.
is_json_error(r) == r = "200_not_json"

\* The body r.json() returned has .get: it is an object.
is_object(r) == r \in {"200", "200_no_key", "200_empty_object", "200_story_empty"}

\* result.get("story") or result is true: a story that is not empty, or the
\* body itself when it is not empty.
story_or_result(r) == r \in {"200", "200_no_key", "200_story_empty"}

\* folder.get("id") of created.get("story") or created is a number.
folder_has_id(r) == r = "200"

\* payload.get("fields") and payload.get("post_url") are both true.
payload_has_fields(r) == r \in {"200", "200_no_key"}

\* The mutant of _req that tries again without a cap.
_req_without_cap(att, r) ==
    IF ~is_http_error(r) /\ ~is_connection_error(r) /\ ~is_json_error(r) THEN "return"
    ELSE "retry"

\* One attempt of _req that ended in r: it returns r.json(), sleeps and tries
\* again, or raises last_err.
_req(att, r) ==
    IF ~is_http_error(r) /\ ~is_connection_error(r) /\ ~is_json_error(r) THEN "return"
    ELSE IF att < RETRIES THEN "retry"
    ELSE "raise"

\* last_err after one attempt of _req that ended in r: every call starts with
\* last_err = None, and an attempt that raised assigns it.
last_err_after(att, err, r) ==
    IF _req(att, r) # "return" THEN r
    ELSE IF att = 1 THEN ""
    ELSE err

\* The condition of line 344 under which create_storyblok_story goes on to
\* the next candidate slug.
slug_retry(he) ==
    /\ response_bool(he)
    /\ status_code(he) = 422
    /\ slug_conflict_text(he)

Missing == [present |-> FALSE, value |-> <<>>]
Value(v) == [present |-> TRUE, value |-> v]

\* data.get(key) or ""
or_empty(f) == IF f.present THEN f.value ELSE <<>>

\* The mutant of record_title without the strip().
record_title_unstripped(rec) == or_empty(rec.page_title)

\* (data.get("page_title") or "").strip()
record_title(rec) == strip(or_empty(rec.page_title))

\* (data.get("body_content", {}).get("main_paragraphs") or "").strip()
record_description(rec) == strip(or_empty(rec.main_paragraphs))

\* Which validation of the record makes run_upload skip it ("": none).
\* The standalone uploader only warns about an empty description.
skip_reason(scr, rec) ==
    IF record_title(rec) = <<>> THEN "skip_no_title"
    ELSE IF scr = "combined" /\ record_description(rec) = <<>> THEN "skip_no_body"
    ELSE ""

MaxFiles == 2

File(kind, title, body, hero) ==
    [kind |-> kind, page_title |-> title, main_paragraphs |-> body, hero_image |-> hero]

GoodTitle == Value(<<"Cardiology">>)
GoodBody == Value(<<"Heart", " ", "care">>)

\* The files of the folder: one that is not JSON, one whose JSON is not an
\* object ("[]"), and records with and without title, body and hero image
\* (hero_image "exists": the image file is found, "not_found": it is not).
Files ==
    { File("unreadable", Missing, Missing, "none"),
      File("not_object", Missing, Missing, "none"),
      File("object", Missing, GoodBody, "none"),
      File("object", Value(<<>>), GoodBody, "exists"),
      File("object", Value(<<" ", NBSP>>), GoodBody, "none"),
      File("object", GoodTitle, Missing, "none"),
      File("object", GoodTitle, Value(<<>>), "exists"),
      File("object", GoodTitle, Value(<<"\n", " ">>), "none"),
      File("object", GoodTitle, GoodBody, "none"),
      File("object", GoodTitle, GoodBody, "exists"),
      File("object", GoodTitle, GoodBody, "not_found") }

InitUpload ==
    /\ script \in {"uploader", "combined"}
    /\ config \in {"ok", "missing", "not_int"}
    /\ json_paths \in UNION {[1..n -> Files] : n \in 1..MaxFiles}
    /\ pc = "start"
    /\ remote_folders \in 0..Len(CONTENT_PATH) /\ folder_i = 0
    /\ jp = 0 /\ uploaded_count = 0 /\ failed_count = 0
    /\ img_attempt = 1 /\ attempt = 1 /\ slug_i = 1 /\ last_err = "" /\ image_asset = FALSE
    /\ img_err = ""
    /\ calls = {} /\ log = <<>> /\ story_requests = 0 /\ signed_payload = ""
    /\ story_err = ""
    /\ CleanIdle /\ ClassifyIdle /\ ScrapeIdle /\ MainIdle /\ FolderIdle

\* Lines 363-374: a missing token or space id, or a space id that is no
\* integer, ends the process with sys.exit(1).
CheckConfig ==
    /\ pc = "start"
    /\ pc' = IF config = "ok" THEN "ensure_folder" ELSE "exit"
    /\ UNCHANGED <<story_requests, signed_payload, story_err>>
    /\ UNCHANGED <<script, config, json_paths, remote_folders, folder_i, jp, uploaded_count,
                   failed_count, img_attempt, attempt, slug_i, last_err, image_asset, img_err,
                   calls, log>>
    /\ UNCHANGED <<scrapeVars, mainVars, folderVars>>

\* Line 377, ensure_content_folder_by_path(CONTENT_PATH): one attempt of a
\* _req of it.  The first request lists the folders (list_folders, of one
\* page); the parts of the path found in the list cost no request, and each
\* part after them is created by a POST of its own.  A list that is an
\* object without stories holds no folder; a body that is no object
\* (AttributeError) and a created folder without id (TypeError) raise.  What
\* is raised, by these or by _req after its last attempt, is caught nowhere
\* and leaves run_upload.
EnsureContentFolder ==
    /\ pc = "ensure_folder"
    /\ calls' = calls \cup {<<0, IF folder_i = 0 THEN "list_folders" ELSE "create_folder">>}
    /\ \E r \in FolderResponses :
        /\ last_err' = last_err_after(attempt, last_err, r)
        /\ IF _req(attempt, r) = "return"
           THEN IF ~is_object(r) \/ (folder_i # 0 /\ ~folder_has_id(r))
                THEN /\ pc' = "raised"
                     /\ UNCHANGED <<attempt, remote_folders, folder_i>>
                ELSE LET found == IF folder_i # 0 THEN folder_i
                                  ELSE IF r = "200" THEN remote_folders
                                  ELSE 0
                     IN /\ remote_folders' =
                            IF found > remote_folders THEN found ELSE remote_folders
                        /\ folder_i' = found + 1
                        /\ pc' = IF found = Len(CONTENT_PATH) THEN "loop" ELSE "ensure_folder"
                        /\ attempt' = 1
           ELSE IF _req(attempt, r) = "retry"
           THEN /\ attempt' = attempt + 1
                /\ UNCHANGED <<pc, remote_folders, folder_i>>
           ELSE /\ pc' = "raised"
                /\ UNCHANGED <<attempt, remote_folders, folder_i>>
    /\ UNCHANGED <<story_requests, signed_payload, story_err>>
    /\ UNCHANGED <<script, config, json_paths, jp, uploaded_count, failed_count, img_attempt,
                   slug_i, image_asset, img_err, log>>
    /\ UNCHANGED <<scrapeVars, mainVars, folderVars>>

\* The record is counted as failed and the loop goes on.
RecordFailed(msg) ==
    /\ failed_count' = failed_count + 1
    /\ log' = Append(log, msg)
    /\ pc' = "loop"
    /\ UNCHANGED uploaded_count

\* Lines 383-415: the next file is read and validated, and its hero image
\* looked up.
ReadRecord ==
    /\ pc = "loop"
    /\ jp < Len(json_paths)
    /\ jp' = jp + 1
    /\ img_attempt' = 1 /\ attempt' = 1 /\ slug_i' = 1 /\ last_err' = "" /\ image_asset' = FALSE
    /\ img_err' = "" /\ story_requests' = 0 /\ signed_payload' = "" /\ story_err' = ""
    /\ LET rec == json_paths[jp + 1] IN
       IF rec.kind = "unreadable" THEN RecordFailed("skip_unreadable")
       ELSE IF rec.kind = "not_object"
       THEN \* data.get: AttributeError, which nothing catches
            /\ pc' = "raised"
            /\ UNCHANGED <<uploaded_count, failed_count, log>>
       ELSE IF skip_reason(script, rec) # "" THEN RecordFailed(skip_reason(script, rec))
       ELSE /\ pc' = IF rec.hero_image = "exists" THEN "signed_asset" ELSE "story"
            /\ UNCHANGED <<uploaded_count, failed_count, log>>
    /\ UNCHANGED <<script, config, json_paths, remote_folders, folder_i, calls>>
    /\ UNCHANGED <<scrapeVars, mainVars, folderVars>>

\* upload_image_to_storyblok caught e: a transport error starts the next
\* attempt, or ends the loop; anything else returns None at once.  Either way
\* run_upload goes on to create the story.
ImageRaised(e) ==
    /\ img_err' = e
    /\ IF is_connection_error(e) /\ img_attempt < MAX_RETRIES
       THEN /\ img_attempt' = img_attempt + 1
            /\ pc' = "signed_asset"
       ELSE /\ pc' = "story"
            /\ UNCHANGED img_attempt

\* client.create_signed_asset: one attempt of its _req, and what follows
\* its return up to the post of the file: signed.get of a body that is no
\* object (AttributeError) and a payload without fields or post_url
\* (RuntimeError, nothing is sent) are caught as any other exception.
SignedAssetAttempt ==
    /\ pc = "signed_asset"
    /\ calls' = calls \cup {<<jp, "signed_asset">>}
    /\ \E r \in SignedResponses :
        /\ last_err' = last_err_after(attempt, last_err, r)
        /\ IF _req(attempt, r) = "return"
           THEN /\ attempt' = 1
                /\ IF ~is_object(r)
                   THEN ImageRaised("AttributeError") /\ UNCHANGED signed_payload
                   ELSE IF ~payload_has_fields(r)
                   THEN ImageRaised("no_fields") /\ UNCHANGED signed_payload
                   ELSE /\ pc' = "asset_upload"
                        /\ signed_payload' = IF r = "200" THEN "keyed" ELSE "no_key"
                        /\ UNCHANGED <<img_attempt, img_err>>
           ELSE IF _req(attempt, r) = "retry"
           THEN /\ attempt' = attempt + 1
                /\ UNCHANGED <<pc, img_attempt, img_err, signed_payload>>
           ELSE /\ attempt' = 1
                /\ ImageRaised(r)
                /\ UNCHANGED signed_payload
    /\ UNCHANGED <<story_requests, story_err>>
    /\ UNCHANGED <<script, config, json_paths, remote_folders, folder_i, jp, uploaded_count,
                   failed_count, slug_i, image_asset, log>>
    /\ UNCHANGED <<scrapeVars, mainVars, folderVars>>

\* client.upload_asset_from_bytes and the asset object: the file is posted,
\* and a payload whose fields hold no key then raises RuntimeError("No asset
\* key").
AssetUpload ==
    /\ pc = "asset_upload"
    /\ calls' = calls \cup {<<jp, "asset_upload">>}
    /\ \E r \in {"200", "500", "ConnectionError"} :
        IF r = "200" /\ signed_payload = "keyed"
        THEN /\ image_asset' = TRUE
             /\ pc' = "story"
             /\ UNCHANGED <<img_attempt, img_err>>
        ELSE /\ ImageRaised(IF r = "200" THEN "no_key" ELSE r)
             /\ UNCHANGED image_asset
    /\ UNCHANGED <<story_requests, signed_payload, story_err>>
    /\ UNCHANGED <<script, config, json_paths, remote_folders, folder_i, jp, uploaded_count,
                   failed_count, attempt, slug_i, last_err, log>>
    /\ UNCHANGED <<scrapeVars, mainVars, folderVars>>

\* create_storyblok_story: one attempt of the _req of client.create_story for
\* the candidate slug slug_i, and what follows when it returns or raises.
StoryAttempt ==
    /\ pc = "story"
    /\ calls' = calls \cup {<<jp, "create_story">>}
    /\ story_requests' = story_requests + 1
    /\ \E r \in Responses :
        /\ last_err' = last_err_after(attempt, last_err, r)
        /\ IF _req(attempt, r) = "return" /\ story_or_result(r)
           THEN /\ uploaded_count' = uploaded_count + 1
                /\ log' = Append(log, "uploaded")
                /\ pc' = "loop"
                /\ UNCHANGED <<failed_count, attempt, slug_i, story_err>>
           ELSE IF _req(attempt, r) = "return"
           THEN \* a body that is no object (AttributeError, return None) or
                \* is {}: run_upload finds no story
                /\ RecordFailed("story_failed")
                /\ story_err' = IF is_object(r) THEN story_err ELSE "AttributeError"
                /\ UNCHANGED <<attempt, slug_i>>
           ELSE IF _req(attempt, r) = "retry"
           THEN /\ attempt' = attempt + 1
                /\ UNCHANGED <<pc, uploaded_count, failed_count, slug_i, log, story_err>>
           ELSE IF is_http_error(r) /\ slug_retry(r) /\ slug_i < SLUGS
           THEN \* continue: the next candidate slug
                /\ slug_i' = slug_i + 1
                /\ attempt' = 1
                /\ UNCHANGED <<pc, uploaded_count, failed_count, log, story_err>>
           ELSE \* return None
                /\ RecordFailed("story_failed")
                /\ story_err' = r
                /\ UNCHANGED <<attempt, slug_i>>
    /\ UNCHANGED <<script, config, json_paths, remote_folders, folder_i, jp, img_attempt,
                   image_asset, img_err, signed_payload>>
    /\ UNCHANGED <<scrapeVars, mainVars, folderVars>>

\* Line 437: the loop is over and the summary is logged.
Finish ==
    /\ pc = "loop"
    /\ jp = Len(json_paths)
    /\ pc' = "done"
    /\ UNCHANGED <<story_requests, signed_payload, story_err>>
    /\ UNCHANGED <<script, config, json_paths, remote_folders, folder_i, jp, uploaded_count,
                   failed_count, img_attempt, attempt, slug_i, last_err, image_asset, img_err,
                   calls, log>>
    /\ UNCHANGED <<scrapeVars, mainVars, folderVars>>

NextUpload ==
    \/ CheckConfig
    \/ EnsureContentFolder
    \/ ReadRecord
    \/ SignedAssetAttempt
    \/ AssetUpload
    \/ StoryAttempt
    \/ Finish

SpecUpload == InitUpload /\ [][NextUpload]_vars


\* The record's page_title is missing, empty or only whitespace.
TitleBlank(rec) ==
    /\ rec.kind = "object"
    /\ rec.page_title.present =>
          \A i \in 1..Len(rec.page_title.value) : IsSpace(rec.page_title.value[i])

\* The record's body_content.main_paragraphs is missing, empty or only whitespace.
BodyBlank(rec) ==
    /\ rec.kind = "object"
    /\ rec.main_paragraphs.present =>
          \A i \in 1..Len(rec.main_paragraphs.value) : IsSpace(rec.main_paragraphs.value[i])

\* C7: a record whose page_title is missing, empty or whitespace-only is
\* skipped in one step that adds one to failed_count and leaves uploaded_count
\* alone, and no remote call is ever issued for it.
C7_BlankTitleSkipped ==
    /\ [][(pc = "loop" /\ jp < Len(json_paths) /\ TitleBlank(json_paths[jp + 1]))
            => /\ failed_count' = failed_count + 1
               /\ uploaded_count' = uploaded_count
               /\ calls' = calls
               /\ jp' = jp + 1
               /\ pc' = "loop"]_vars
    /\ [](\A i \in 1..jp : TitleBlank(json_paths[i]) => \A c \in calls : c[1] # i)

\* A record with a whitespace-only title was skipped after an earlier
\* record had been uploaded.
C7_Witness ==
    /\ pc = "loop"
    /\ jp = 2
    /\ json_paths[2].page_title.present
    /\ json_paths[2].page_title.value # <<>>
    /\ TitleBlank(json_paths[2])
    /\ log = <<"uploaded", "skip_no_title">>
    /\ failed_count = 1 /\ uploaded_count = 1

\* C8: under either script, no story is created for a record with a title
\* and an empty body, and the record is counted as failed.
C8_EmptyBodySkipped ==
    \A i \in 1..jp :
        (~TitleBlank(json_paths[i]) /\ BodyBlank(json_paths[i]))
            => /\ <<i, "create_story">> \notin calls
               /\ i <= Len(log) => log[i] = "skip_no_body"

\* C9: create_storyblok_story gives up on a record after a slug conflict
\* (422) only when all three candidate slugs have collided.
C9_SlugConflictRetried ==
    (/\ pc = "loop"
     /\ jp >= 1 /\ Len(log) = jp
     /\ ~BodyBlank(json_paths[jp])
     /\ log[jp] = "story_failed"
     /\ story_err = "422_slug")
        => slug_i = SLUGS

\* C10: once the record loop has started, run_upload ends only after it has
\* processed every path, each counted once as uploaded or as failed.
C10_EveryRecordCounted ==
    (pc \in {"done", "raised"} /\ jp >= 1)
        => /\ jp = Len(json_paths)
           /\ uploaded_count + failed_count = Len(json_paths)

\* C11: run_upload is never left by an exception that a remote failure
\* raised: whatever the CMS answers, the run goes on to its summary.
C11_RemoteFailureNeverAborts ==
    pc = "raised" => last_err = ""

\* C14: a record whose image upload ended with a connection error in the
\* last of its MAX_RETRIES attempts is counted as failed, not as uploaded.
C14_ExhaustedCapFailsRecord ==
    (/\ pc = "loop"
     /\ jp >= 1 /\ Len(log) = jp
     /\ ~BodyBlank(json_paths[jp])
     /\ img_attempt = MAX_RETRIES
     /\ is_connection_error(img_err)
     /\ ~image_asset)
        => /\ log[jp] = "story_failed"
           /\ uploaded_count < jp

MaxStoryFiles == 1

\* The publish run of a folder of at most MaxStoryFiles files under the
\* scheduling of a sequential program: a step that can be taken is taken.
InitUploadFair == InitUpload /\ Len(json_paths) <= MaxStoryFiles

SpecUploadFair == InitUploadFair /\ [][NextUpload]_vars /\ WF_vars(NextUpload)

\* C30: create_storyblok_story sends at most RETRIES requests for each of at
\* most SLUGS candidate slugs, none once a request has succeeded or the
\* record has its outcome, and it ends.
C30_StoryRequestsBounded ==
    /\ [](story_requests <= RETRIES * SLUGS /\ attempt <= RETRIES /\ slug_i <= SLUGS)
    /\ [][story_requests' > story_requests =>
              /\ story_requests' = story_requests + 1
              /\ Len(log) = jp - 1]_vars
    /\ [](pc = "story" => <>(pc # "story"))

\* A story created by the last of the RETRIES requests _req allows.
C30_Witness ==
    /\ story_requests = RETRIES
    /\ jp >= 1 /\ Len(log) = jp /\ log[jp] = "uploaded"
    /\ last_err = "422_slug"

-----------------------------------------------------------------------------
(* main of the three scripts: the scrape loop and the call of run_upload   *)

MaxUrls == 2
MaxRunFiles == 1

\* <h1>Cardiology</h1>, an appointment paragraph and two doctor-search links.
PageCardiology ==
    Compose(<<El("body")>>, 1,
        << <<WithText("h1", <<"Cardiology">>)>>,
           <<WithText("p", <<"Request an Appointment", " ", "(021)111911911", " ",
                             "Family Hifazat">>)>>,
           <<FacultyLink(1)>>,
           <<FacultyLink(2)>> >>)

\* <h1></h1> and nothing else.
PageEmptyHeading == <<El("h1")>>

\* What a URL answers: a page, an HTTP error status, or no answer.
Url(url, outcome, d) == [url |-> url, outcome |-> outcome, doc |-> d]

Site == <<"https://", "hospitals.aku.edu", "/", "health-services">>

Urls ==
    { Url(Site \o <<"/", "cardiology">>, "200", PageCardiology),
      Url(Site \o <<"/", "heart">>, "200", PageEmptyHeading),
      Url(Site \o <<"/", "team">>, "404", <<>>),
      Url(Site \o <<"/", "care">>, "ConnectionError", <<>>),
      Url(Site \o <<"/", "services">>, "Timeout", <<>>) }

\* The mutant of scrape_page_url that catches nothing and always returns a
\* record.
scrape_page_url_uncaught(scr, u) == <<scrape_page(scr, u.url, u.doc)>>

\* scrape_page(url): <<the record>>, or <<>> (None) when requests.get or
\* raise_for_status raised.
scrape_page_url(scr, u) ==
    IF u.outcome = "200" THEN <<scrape_page(scr, u.url, u.doc)>> ELSE <<>>

RATE_LIMIT_DELAY == 2

\* The mutant of rate_limit_sleep that sleeps after a saved page only.
rate_limit_sleep_saved_only(page_data) == IF page_data # <<>> THEN RATE_LIMIT_DELAY ELSE 0

\* time.sleep(RATE_LIMIT_DELAY) ends every turn of the loop, whatever
\* scrape_page returned.
rate_limit_sleep(page_data) == RATE_LIMIT_DELAY

\* filename.strip('. ')
RECURSIVE strip_dots(_)
strip_dots(t) ==
    IF t = <<>> THEN <<>>
    ELSE IF Head(t) \in {".", " "} THEN strip_dots(Tail(t))
    ELSE IF t[Len(t)] \in {".", " "} THEN strip_dots(SubSeq(t, 1, Len(t) - 1))
    ELSE t

\* sanitize_filename(title), character by character: the result is spelled
\* in pieces of one character.
sanitize_filename(filename) ==
    LET kept == SelectSeq(chars(filename),
                          LAMBDA c : c \notin {"<", ">", ":", "\"", "/", "\\", "|", "?", "*"})
        safe == strip_dots(str_replace(kept, " ", "_"))
    IN IF safe = <<>> THEN <<"p", "a", "g", "e">>
       ELSE SubSeq(safe, 1, IF Len(safe) < 100 THEN Len(safe) ELSE 100)

\* The mutant of record_file that writes a hero_image key.
record_file_with_hero(page_data) ==
    File("object", Value(page_data.page_title),
         Value(page_data.body_content.main_paragraphs), "exists")

\* json.dump of the record to its file, as run_upload reads it back: the
\* dictionary of scrape_page has no hero_image key.
record_file(page_data) ==
    File("object", Value(page_data.page_title),
         Value(page_data.body_content.main_paragraphs), "none")

\* f"{page_counter}_{safe_filename}.json"
json_file_name(counter, safe_filename) == <<ToString(counter), "_">> \o safe_filename \o <<".json">>

\* The mutant of summary_rows that numbers a row by the place of its URL in
\* the list read.
summary_rows_by_url(res) == [k \in 1..Len(res) |-> [file_number |-> res[k], url |-> res[k]]]

\* The rows of summary.csv: enumerate(results, 1), with the page's URL.
summary_rows(res) == [k \in 1..Len(res) |-> [file_number |-> k, url |-> res[k]]]

glob_orders(q) ==
    { [k \in 1..Len(q) |-> q[f[k]]] :
        f \in { g \in [1..Len(q) -> 1..Len(q)] : \A a, b \in 1..Len(q) : g[a] = g[b] => a = b } }

InitRun ==
    /\ script \in {"scraper", "uploader", "combined"}
    /\ mode \in CASE script = "scraper" -> {"scrape_only"}
              [] script = "uploader" -> {"upload_only"}
              [] OTHER -> {"scrape_only", "upload_only", "scrape_upload"}
    /\ links_file \in {"exists", "missing"}
    /\ urls \in IF mode = "upload_only" \/ links_file = "missing" THEN {<<>>}
                ELSE UNION {[1..n -> Urls] : n \in 0..MaxUrls}
    /\ json_paths \in IF mode = "upload_only" /\ links_file = "exists"
                      THEN UNION {[1..n -> Files] : n \in 0..MaxRunFiles}
                      ELSE {<<>>}
    /\ config \in {"ok", "missing", "not_int"}
    /\ remote_folders \in 0..Len(CONTENT_PATH)
    /\ mpc = "start" /\ pc = "idle"
    /\ idx = 0 /\ results = <<>> /\ failed_urls = <<>> /\ page_counter = 1 /\ files = <<>>
    /\ fetches = <<>> /\ sleeps = 0 /\ metadata = <<>>
    /\ folder_i = 0 /\ jp = 0 /\ uploaded_count = 0 /\ failed_count = 0
    /\ img_attempt = 1 /\ attempt = 1 /\ slug_i = 1 /\ last_err = "" /\ image_asset = FALSE
    /\ img_err = "" /\ calls = {} /\ log = <<>> /\ story_requests = 0 /\ signed_payload = ""
    /\ story_err = ""
    /\ CleanIdle /\ ClassifyIdle /\ ScrapeIdle /\ FolderIdle

\* main up to its loop: a missing links file or folder, or a folder without
\* record files, ends the process (sys.exit(1)); the upload-only mode calls
\* run_upload at once.
MainStart ==
    /\ mpc = "start"
    /\ IF mode = "upload_only"
       THEN IF links_file = "missing" \/ json_paths = <<>>
            THEN mpc' = "exit" /\ pc' = pc
            ELSE mpc' = "upload" /\ pc' = "start"
       ELSE /\ mpc' = IF links_file = "missing" THEN "exit" ELSE "scrape"
            /\ pc' = pc
    /\ UNCHANGED <<mode, links_file, urls, idx, results, failed_urls, page_counter, files,
                   fetches, sleeps, metadata>>
    /\ UNCHANGED <<story_requests, signed_payload, story_err>>
    /\ UNCHANGED <<script, config, json_paths, remote_folders, folder_i, jp, uploaded_count,
                   failed_count, img_attempt, attempt, slug_i, last_err, image_asset, img_err,
                   calls, log>>
    /\ UNCHANGED <<scrapeVars, folderVars>>

\* One turn of the scrape loop: the page is fetched and scraped, its record
\* saved or its URL noted as failed, and the loop sleeps.
ScrapeUrl ==
    /\ mpc = "scrape"
    /\ idx < Len(urls)
    /\ idx' = idx + 1
    /\ fetches' = Append(fetches, idx + 1)
    /\ \E page_data \in {scrape_page_url(script, urls[idx + 1])} :
          IF page_data # <<>>
          THEN /\ results' = Append(results, idx + 1)
               /\ files' = Append(files,
                      [number |-> page_counter,
                       safe_filename |-> sanitize_filename(page_data[1].page_title),
                       name |-> json_file_name(page_counter,
                                               sanitize_filename(page_data[1].page_title)),
                       content |-> record_file(page_data[1])])
               /\ page_counter' = page_counter + 1
               /\ UNCHANGED failed_urls
          ELSE /\ failed_urls' = Append(failed_urls, idx + 1)
               /\ UNCHANGED <<results, files, page_counter>>
    /\ sleeps' = sleeps + rate_limit_sleep(scrape_page_url(script, urls[idx + 1]))
    /\ UNCHANGED <<mode, links_file, urls, mpc, metadata>>
    /\ UNCHANGED <<scrapeVars, uploadVars, folderVars>>

\* After the loop: metadata.json and summary.csv are written, and unless only scraping was
\* asked for run_upload is called with the record files of the output folder,
\* in the order glob yields them.
WriteMetadata ==
    /\ mpc = "scrape"
    /\ idx = Len(urls)
    /\ metadata' = <<[total_pages |-> Len(urls), pages_scraped |-> Len(results),
                      pages_failed |-> Len(failed_urls), failed_urls |-> failed_urls,
                      total_files |-> Len(results),
                      summary_csv |-> summary_rows(results)]>>
    /\ IF script = "scraper" \/ mode = "scrape_only"
       THEN mpc' = "done" /\ UNCHANGED <<json_paths, pc>>
       ELSE /\ mpc' = "upload"
            /\ pc' = "start"
            /\ json_paths' \in glob_orders([k \in 1..Len(files) |-> files[k].content])
    /\ UNCHANGED <<mode, links_file, urls, idx, results, failed_urls, page_counter, files,
                   fetches, sleeps>>
    /\ UNCHANGED <<story_requests, signed_payload, story_err>>
    /\ UNCHANGED <<script, config, remote_folders, folder_i, jp, uploaded_count,
                   failed_count, img_attempt, attempt, slug_i, last_err, image_asset, img_err,
                   calls, log>>
    /\ UNCHANGED <<scrapeVars, folderVars>>

\* run_upload returned, called sys.exit(1), or was left by an exception, and
\* so is main.
RunUploadEnds ==
    /\ mpc = "upload"
    /\ pc \in {"done", "exit", "raised"}
    /\ mpc' = pc
    /\ UNCHANGED <<mode, links_file, urls, idx, results, failed_urls, page_counter, files,
                   fetches, sleeps, metadata>>
    /\ UNCHANGED <<scrapeVars, uploadVars, folderVars>>

NextRun ==
    \/ MainStart
    \/ ScrapeUrl
    \/ WriteMetadata
    \/ CheckConfig
    \/ EnsureContentFolder
    \/ ReadRecord
    \/ SignedAssetAttempt
    \/ AssetUpload
    \/ StoryAttempt
    \/ Finish
    \/ RunUploadEnds

SpecRun == InitRun /\ [][NextRun]_vars

\* The fetch of URL number i fails.
FetchFails(i) == urls[i].outcome # "200"

Range(q) == {q[k] : k \in 1..Len(q)}

\* C12: every URL the loop has gone through was fetched exactly once; it is
\* in failed_urls, without a record file, when its fetch failed and in
\* results otherwise, never in both; the loop ends only after the last URL,
\* and the metadata then has pages_scraped + pages_failed = total_pages.
C12_FetchFailureIsolated ==
    /\ fetches = [k \in 1..idx |-> k]
    /\ \A i \in 1..idx : FetchFails(i) <=> i \in Range(failed_urls)
    /\ \A i \in 1..idx : ~FetchFails(i) <=> i \in Range(results)
    /\ Len(results) + Len(failed_urls) = idx
    /\ Len(files) = Len(results)
    /\ mpc \in {"upload", "done", "raised"} /\ mode # "upload_only" => idx = Len(urls)
    /\ metadata # <<>> =>
          /\ idx = Len(urls)
          /\ metadata[1].total_pages = Len(urls)
          /\ metadata[1].pages_scraped + metadata[1].pages_failed = metadata[1].total_pages
          /\ metadata[1].failed_urls = failed_urls

\* The first URL timed out, the second was scraped and saved, and the
\* metadata is written.
C12_Witness ==
    /\ metadata # <<>>
    /\ Len(urls) = 2
    /\ urls[1].outcome = "Timeout"
    /\ failed_urls = <<1>>
    /\ results = <<2>>
    /\ Len(files) = 1

\* C23: a page is fetched only when every URL before it, in list order, has
\* been fetched and either saved as a record file or noted as failed, and
\* the loop has slept RATE_LIMIT_DELAY seconds after each of those fetches.
C23_SequentialAndThrottled ==
    [][fetches' # fetches =>
          /\ fetches' = Append(fetches, Len(fetches) + 1)
          /\ Len(results) + Len(failed_urls) = Len(fetches)
          /\ Len(files) = Len(results)
          /\ sleeps = RATE_LIMIT_DELAY * Len(fetches)]_vars

\* Two URLs fetched, the first of which failed: the loop slept after both.
C23_Witness ==
    /\ fetches = <<1, 2>>
    /\ failed_urls = <<1>>
    /\ results = <<2>>
    /\ sleeps = 2 * RATE_LIMIT_DELAY

\* C26: page_counter is one more than the number of pages saved; the record
\* files are numbered 1, 2, ... in the order they were saved, whatever URLs
\* failed in between; no two of them have the same name; and row k of
\* summary.csv is the page of the k-th record file, with its number.
C26_FilesNumberedConsecutively ==
    /\ page_counter = Len(results) + 1
    /\ Len(files) = Len(results)
    /\ \A k \in 1..Len(files) : files[k].number = k
    /\ \A a, b \in 1..Len(files) : files[a].name = files[b].name => a = b
    /\ metadata # <<>> =>
          /\ Len(metadata[1].summary_csv) = Len(files)
          /\ \A k \in 1..Len(files) :
                /\ metadata[1].summary_csv[k].file_number = files[k].number
                /\ metadata[1].summary_csv[k].url = results[k]
                /\ files[k].content =
                       record_file(scrape_page(script, urls[results[k]].url,
                                               urls[results[k]].doc))

\* The first URL failed and the second was saved: its file and its row have
\* the number 1.
C26_Witness ==
    /\ metadata # <<>>
    /\ failed_urls = <<1>> /\ results = <<2>>
    /\ files[1].name = <<"1", "_">> \o chars(<<"Cardiology">>) \o <<".json">>
    /\ metadata[1].summary_csv = <<[file_number |-> 1, url |-> 2]>>

\* Two pages of the same title saved: their files differ by the number.
C26_SameTitle ==
    /\ Len(files) = 2
    /\ files[1].safe_filename = files[2].safe_filename

\* C29: when the combined script publishes what it scraped, no record has a
\* hero image and none causes a signed-asset request or an asset upload; and
\* every record processed whose title and body are not empty went through
\* create_storyblok_story, once: its outcome is that call's, and the call is
\* under way only for the record that has no outcome yet.
C29_ScraperRecordsPublished ==
    (script = "combined" /\ mode = "scrape_upload" /\ mpc # "scrape") =>
        /\ \A k \in 1..Len(json_paths) :
              /\ json_paths[k].hero_image = "none"
              /\ <<k, "signed_asset">> \notin calls /\ <<k, "asset_upload">> \notin calls
              /\ (k <= Len(log) /\ ~TitleBlank(json_paths[k]) /\ ~BodyBlank(json_paths[k])) =>
                    /\ log[k] \in {"uploaded", "story_failed"}
                    /\ <<k, "create_story">> \in calls
        /\ pc = "story" => Len(log) = jp - 1

\* The combined script scraped two pages with title and body and published
\* them: one story was created, one failed, no asset was requested.
C29_Witness ==
    /\ script = "combined" /\ mode = "scrape_upload"
    /\ pc = "done"
    /\ Len(json_paths) = 2
    /\ \A k \in 1..2 : ~TitleBlank(json_paths[k]) /\ ~BodyBlank(json_paths[k])
    /\ log = <<"uploaded", "story_failed">>
    /\ calls = {<<0, "list_folders">>, <<1, "create_story">>, <<2, "create_story">>}

\* C13: when run_upload ends the process for a missing or malformed
\* credential, no page has been fetched and no remote call made.
C13_ConfigErrorBeforeAnyFetch ==
    (pc = "exit" /\ config # "ok") => fetches = <<>> /\ calls = {}

-----------------------------------------------------------------------------
(* ensure_content_folder_by_path against the folders of a space            *)

\* params={"folder_only": 1, "per_page": 100, "page": page}
PER_PAGE == 100

\* A folder as the CMS lists it.
Folder(id, name, parent_id) ==
    [id |-> id, name |-> name, parent_id |-> parent_id, is_folder |-> TRUE]

\* The listing of a space: the folders of `front`, then `fillers` folders of
\* other names, then the folders of `back`.
listing_len(sp) == Len(sp.front) + sp.fillers + Len(sp.back)

\* int(data.get("total") or 0): the body of a listing carries "total" or not.
reported_total(sp) == IF sp.has_total THEN listing_len(sp) ELSE 0

\* len(items) of page `page_no`.
page_items(sp, page_no) ==
    LET rest == listing_len(sp) - (page_no - 1) * PER_PAGE
    IN IF rest <= 0 THEN 0 ELSE IF rest > PER_PAGE THEN PER_PAGE ELSE rest

\* The loop of list_folders: the number of the page it breaks at.
RECURSIVE pages_read(_, _)
pages_read(sp, page_no) ==
    IF page_no * PER_PAGE >= reported_total(sp) \/ page_items(sp, page_no) = 0 THEN page_no
    ELSE pages_read(sp, page_no + 1)

\* list_folders(): the folders of the pages read, without those of other names.
list_folders(sp) ==
    LET last == pages_read(sp, 1) * PER_PAGE
        seen_back == last - Len(sp.front) - sp.fillers
    IN SubSeq(sp.front, 1, IF last < Len(sp.front) THEN last ELSE Len(sp.front))
       \o SubSeq(sp.back, 1, IF seen_back > Len(sp.back) THEN Len(sp.back) ELSE seen_back)

all_folders(sp) == sp.front \o sp.back

\* The id the CMS gives the next story: above every id of the space (the
\* folders of other names have ids from 1 to fillers).
RECURSIVE max_id(_)
max_id(folders) ==
    IF folders = <<>> THEN 0
    ELSE IF Head(folders).id > max_id(Tail(folders)) THEN Head(folders).id
    ELSE max_id(Tail(folders))

fresh_id(sp) ==
    1 + (IF max_id(all_folders(sp)) > sp.fillers THEN max_id(all_folders(sp)) ELSE sp.fillers)

\* The for loop over path_parts (lines 194-218): folders is the local list,
\* created the folders POSTed so far, next_id the id the next POST returns.
RECURSIVE ensure_levels(_, _, _, _, _)
ensure_levels(parts, folders, parent_id, created, next_id) ==
    IF parts = <<>> THEN [id |-> parent_id, created |-> created]
    ELSE LET found == SelectSeq(folders, LAMBDA f :
                 f.is_folder /\ f.name = Head(parts) /\ f.parent_id = parent_id)
         IN IF found # <<>>
            THEN ensure_levels(Tail(parts), folders, found[1].id, created, next_id)
            ELSE ensure_levels(Tail(parts),
                               Append(folders, Folder(next_id, Head(parts), parent_id)),
                               next_id, Append(created, Folder(next_id, Head(parts), parent_id)),
                               next_id + 1)

\* ensure_content_folder_by_path(path_parts) when every request succeeds: the
\* id returned, the folders created and the number of requests made.
ensure_content_folder_by_path(sp, parts) ==
    IF parts = <<>> THEN [id |-> 0, created |-> <<>>, requests |-> 0]
    ELSE LET r == ensure_levels(parts, list_folders(sp), 0, <<>>, fresh_id(sp))
         IN [id |-> r.id, created |-> r.created,
             requests |-> pages_read(sp, 1) + Len(r.created)]

\* The folders a space may hold before the first call.
FolderUniverse ==
    { Folder(101, "Automation", 0), Folder(102, "health-services", 101),
      Folder(103, "health-services", 0), Folder(104, "Automation", 0) }

RECURSIVE SortedSeq(_)
SortedSeq(S) ==
    IF S = {} THEN <<>>
    ELSE LET f == CHOOSE x \in S : \A y \in S : x.id <= y.id
         IN <<f>> \o SortedSeq(S \ {f})

MaxCalls == 2

InitFolders ==
    /\ \E S \in SUBSET FolderUniverse, n \in {0, PER_PAGE}, total \in BOOLEAN, newest \in BOOLEAN :
          space = [front |-> IF newest THEN SortedSeq(S) ELSE <<>>, fillers |-> n,
                   back |-> IF newest THEN <<>> ELSE SortedSeq(S), has_total |-> total]
    /\ path_parts \in {<<>>, <<"Automation">>, CONTENT_PATH}
    /\ returned = <<>>
    /\ CleanIdle /\ ClassifyIdle /\ ScrapeIdle /\ MainIdle /\ UploadIdle

\* One call that no request fails; the CMS lists the folders it created
\* before all others or after them.
EnsureContentFolderCall ==
    /\ Len(returned) < MaxCalls
    /\ \E r \in {ensure_content_folder_by_path(space, path_parts)} :
          /\ returned' = Append(returned,
                [id |-> r.id, created |-> r.created, requests |-> r.requests,
                 before |-> all_folders(space)])
          /\ \E newest \in BOOLEAN :
                space' = IF newest THEN [space EXCEPT !.front = r.created \o @]
                         ELSE [space EXCEPT !.back = @ \o r.created]
    /\ UNCHANGED path_parts
    /\ UNCHANGED <<scrapeVars, mainVars, uploadVars>>

NextFolders == EnsureContentFolderCall

SpecFolders == InitFolders /\ [][NextFolders]_vars

\* The ids a path leads to among folders F, level by level from parent_id.
RECURSIVE Deepest(_, _, _)
Deepest(F, parts, parent_id) ==
    IF parts = <<>> THEN {parent_id}
    ELSE UNION { Deepest(F, Tail(parts), f.id) :
                    f \in { g \in F : g.name = Head(parts) /\ g.parent_id = parent_id } }

\* C25: a call returns the id of the deepest folder of the path, which then
\* exists level by level; it creates no folder whose name already exists
\* under the same parent; an empty path returns 0 without a remote call; and
\* a second call creates nothing and returns the id of the first.
C25_FolderPathIdempotent ==
    /\ \A c \in 1..Len(returned) :
          /\ path_parts = <<>> => returned[c].id = 0 /\ returned[c].requests = 0
          /\ path_parts # <<>> =>
                returned[c].id \in Deepest(Range(returned[c].before) \cup Range(returned[c].created),
                                           path_parts, 0)
          /\ \A k \in 1..Len(returned[c].created) :
                ~\E f \in Range(returned[c].before) :
                    /\ f.name = returned[c].created[k].name
                    /\ f.parent_id = returned[c].created[k].parent_id
    /\ Len(returned) = 2 =>
          returned[2].created = <<>> /\ returned[2].id = returned[1].id

-----------------------------------------------------------------------------
(* Claims about the record scrape_page assembles                           *)

IsLink(d, j) == d[j].tag = "a" /\ d[j].has_href

DoctorLinks(d) == find_all(d, 0, LAMBDA j : IsLink(d, j) /\ is_findadoctor(d[j].href))

AppointmentParagraphs(d) ==
    find_all(d, 0, LAMBDA j :
        /\ d[j].tag = "p"
        /\ contains(get_text(d, j), "Request an Appointment")
        /\ contains(get_text(d, j), "(021)111911911")
        /\ contains(get_text(d, j), "Family Hifazat"))

\* The content region as the claim states it: a selector's node, else the
\* first div with a content class that holds a paragraph or a heading of any
\* level, else body, else the root.
StatedRegion(d) ==
    LET sel == first_selected(d, 1)
        div == find(d, 0, LAMBDA j :
            /\ d[j].tag = "div"
            /\ \E c \in {"content", "main", "body", "article"} : attr_has(d[j].cls, c)
            /\ \E k \in 1..Len(d) :
                  InSubtree(d, j, k) /\ d[k].tag \in {"p", "h1", "h2", "h3", "h4", "h5", "h6"})
        body == find(d, 0, LAMBDA j : d[j].tag = "body")
    IN IF sel # 0 THEN sel ELSE IF div # 0 THEN div ELSE body

\* The paragraphs whose cleaned text holds "request an appointment" in any case.
AskingParagraphs(d) ==
    find_all(d, 0, LAMBDA j :
        d[j].tag = "p" /\ contains(text_lower(clean_text(get_text(d, j))), "request an appointment"))

PhonesOf(t) == SelectSeq(t, is_phone)

HasPhone(t) == PhonesOf(t) # <<>>

\* A list of links: a ul or ol that holds a link.
ListOfLinks(d, u) ==
    /\ d[u].tag \in {"ul", "ol"}
    /\ \E a \in 1..Len(d) : IsLink(d, a) /\ InSubtree(d, u, a)

\* The document of the end-to-end scenario: one h1, no list of links in the
\* content region, no collapsible h4, one paragraph with the phrase, the
\* number and the app name, and two doctor-search links.
Scenario(d) ==
    /\ Len(find_all(d, 0, LAMBDA j : d[j].tag = "h1")) = 1
    /\ ~\E u \in 1..Len(d) : InSubtree(d, StatedRegion(d), u) /\ ListOfLinks(d, u)
    /\ find(d, 0, LAMBDA j : d[j].tag = "h4" /\ attr_has(d[j].id, "collapse")) = 0
    /\ Len(AppointmentParagraphs(d)) = 1
    /\ Len(DoctorLinks(d)) = 2

ScenarioOutcome(d, r) ==
    /\ r.page_title = clean_text(get_text(d, find(d, 0, LAMBDA j : d[j].tag = "h1")))
    /\ r.appointment_section.present
    /\ r.appointment_section.components.phone_number = "(021)111911911"
    /\ r.faculty_links.count = 2
    /\ r.page_type_classification = "standard"

\* The link is the first link of an h4 heading.
FirstLinkOfH4(d, j) ==
    \E h \in 1..Len(d) :
        d[h].tag = "h4" /\ find(d, h, LAMBDA k : IsLink(d, k)) = j

\* The text of the link names the faculty, as the specification has faculty
\* links recognised.
NamesFaculty(d, j) ==
    LET text == clean_text(get_text(d, j))
    IN \/ contains(text, "Meet our")
       \/ contains(text, "Find a Doctor")
       \/ contains(text_lower(text), "faculty")

\* The two doctor-search links differ in URL or text, and each is the first
\* link of an h4 or names the faculty.
QualifiedLinks(d) ==
    LET l == DoctorLinks(d)
    IN /\ \A k \in 1..Len(l) : FirstLinkOfH4(d, l[k]) \/ NamesFaculty(d, l[k])
       /\ \A a, b \in 1..Len(l) :
            (/\ d[l[a]].href = d[l[b]].href
             /\ clean_text(get_text(d, l[a])) = clean_text(get_text(d, l[b]))) => a = b

\* The paragraph of the scenario is the first one of the page that asks to
\* request an appointment, and (021)111911911 is the first number in it.
AppointmentParagraphLeads(d) ==
    /\ AskingParagraphs(d)[1] = AppointmentParagraphs(d)[1]
    /\ PhonesOf(clean_text(get_text(d, AppointmentParagraphs(d)[1])))[1] = "(021)111911911"

\* C15: every document of the scenario yields the cleaned h1 text as title,
\* the appointment section with its phone number, two faculty links and the
\* type standard; stated for the pages whose two doctor-search links are
\* faculty links as the specification recognises them and whose appointment
\* paragraph is the first that asks and names (021)111911911 first.
C15_ScenarioRecord ==
    (/\ page # <<>>
     /\ Scenario(doc)
     /\ QualifiedLinks(doc)
     /\ AppointmentParagraphLeads(doc))
        => ScenarioOutcome(doc, page[1])

\* The page of C15 that the record is not standard for: the scenario in a
\* div the class fallback gives as content region, and a list of links of
\* the body outside it.
C15_ListOutsideRegion ==
    /\ page # <<>>
    /\ Scenario(doc) /\ QualifiedLinks(doc) /\ AppointmentParagraphLeads(doc)
    /\ \E u \in 1..Len(doc) : ListOfLinks(doc, u) /\ ~InSubtree(doc, StatedRegion(doc), u)
    /\ page[1].page_type_classification = "parent_overview"

\* C16: the content region of extract_body_content is the one the stated
\* precedence gives.
C16_RegionPrecedence ==
    content_divs # <<>> => content_divs[1] = StatedRegion(doc)

\* C17: extract_body_content and extract_subsection_links locate the same
\* content region.
C17_SameRegion ==
    content_divs # <<>> => content_divs[1] = content_divs[2]

ImagesOf(d, p) == find_all(d, p, LAMBDA j : d[j].tag = "img")

\* C21: the appointment section is present exactly when a paragraph asks to
\* request an appointment, and its phone number, link, app flag and store
\* badge flags are those of the first such paragraph alone.
C21_FirstAskingParagraphOnly ==
    page # <<>> =>
        LET asking == AskingParagraphs(doc)
            a == page[1].appointment_section
        IN /\ a.present <=> asking # <<>>
           /\ asking # <<>> =>
                LET p == asking[1]
                    text == clean_text(get_text(doc, p))
                    link == find(doc, p, LAMBDA j : IsLink(doc, j))
                IN /\ a.components.phone_number
                        = (IF PhonesOf(text) = <<>> THEN "" ELSE PhonesOf(text)[1])
                   /\ a.components.click_here_link.present <=> link # 0
                   /\ link # 0 =>
                        /\ a.components.click_here_link.url = doc[link].href
                        /\ a.components.click_here_link.text = clean_text(get_text(doc, link))
                   /\ a.components.family_hifazat.main_link_present
                        <=> contains(text_lower(text), "family hifazat")
                   /\ a.components.family_hifazat.google_play_button
                        <=> \E k \in 1..Len(ImagesOf(doc, p)) :
                              \E w \in {"google play", "playstore"} :
                                 contains(text_lower(doc[ImagesOf(doc, p)[k]].src), w)
                   /\ a.components.family_hifazat.app_store_button
                        <=> \E k \in 1..Len(ImagesOf(doc, p)) :
                              \E w \in {"app store", "appstore"} :
                                 contains(text_lower(doc[ImagesOf(doc, p)[k]].src), w)

\* A page whose first paragraph only asks and whose second asks with a phone
\* number, a link and badges, scraped: the section is present and empty.
C21_Witness ==
    /\ page # <<>>
    /\ Len(AskingParagraphs(doc)) = 2
    /\ PhonesOf(clean_text(get_text(doc, AskingParagraphs(doc)[1]))) = <<>>
    /\ PhonesOf(clean_text(get_text(doc, AskingParagraphs(doc)[2]))) # <<>>
    /\ ImagesOf(doc, AskingParagraphs(doc)[2]) # <<>>
    /\ page[1].appointment_section.present
    /\ page[1].appointment_section.components.phone_number = ""
    /\ ~page[1].appointment_section.components.click_here_link.present
    /\ ~page[1].appointment_section.components.family_hifazat.google_play_button

\* The lists of the content region without a navigation-classed ancestor,
\* each with one of its direct items whose first link has a cleaned text
\* longer than 2 characters that does not start with '#'.
CollectedItems(d, region) ==
    { q \in (1..Len(d)) \X (1..Len(d)) :
        /\ d[q[1]].tag = "ul" /\ InSubtree(d, region, q[1])
        /\ \A a \in ancestors(d, q[1]) : \A w \in NavWords : ~contains(text_lower(d[a].cls), w)
        /\ d[q[2]].tag = "li" /\ d[q[2]].parent = q[1]
        /\ find(d, q[2], LAMBDA j : IsLink(d, j)) # 0
        /\ LET text == clean_text(get_text(d, find(d, q[2], LAMBDA j : IsLink(d, j))))
           IN text_len(text) > 2 /\ Head(text) # "#" }

\* The place of an item among the collected ones: list by list, item by item.
ItemRank(items, q) ==
    1 + Cardinality({ r \in items : r[1] < q[1] \/ (r[1] = q[1] /\ r[2] < q[2]) })

\* C24: subsection_links holds, list by list and item by item, the first
\* link of every direct item of every list of the content region that has
\* no navigation-classed ancestor, when its cleaned text is longer than 2
\* characters and does not start with '#'; count is their number and
\* present says there is one.
C24_SubsectionLinksCollected ==
    page # <<>> =>
        LET items == CollectedItems(doc, content_divs[2])
            sub == page[1].subsection_links
        IN /\ sub.count = Cardinality(items)
           /\ Len(sub.links) = sub.count
           /\ sub.present <=> sub.count > 0
           /\ \A q \in items :
                LET link == find(doc, q[2], LAMBDA j : IsLink(doc, j))
                IN sub.links[ItemRank(items, q)]
                     = [text |-> clean_text(get_text(doc, link)), url |-> doc[link].href]

\* A list of two items, scraped: the first item's first link has a cleaned
\* text of two characters and is dropped though a good link follows it; the
\* second item's link is collected.
C24_Witness ==
    /\ page # <<>>
    /\ Len(find_all(doc, 0, LAMBDA j : doc[j].tag = "li")) = 2
    /\ \E a \in 1..Len(doc) : IsLink(doc, a) /\ clean_text(get_text(doc, a)) = <<"ab">>
    /\ page[1].subsection_links.count = 1
    /\ page[1].subsection_links.links[1].text = <<"Eye">>

\* C28: in the combined script, a page whose body flag is set and that has a
\* kept paragraph with "Request an Appointment" has its appointment section
\* present; a page whose body flag is set without the section being present
\* has the phrase in a strong whose nearest enclosing div or p is a div.
C28_BodyFlagImpliesSection ==
    (page # <<>> /\ script = "combined" /\ page[1].body_content.has_appointment_section) =>
        /\ (\E k \in 1..Len(kept_paragraphs(doc, content_divs[1])) :
                contains(kept_paragraphs(doc, content_divs[1])[k], "Request an Appointment"))
              => page[1].appointment_section.present
        /\ ~page[1].appointment_section.present =>
              \E j \in 1..Len(doc) :
                  /\ doc[j].tag = "strong" /\ InSubtree(doc, content_divs[1], j)
                  /\ contains(clean_text(get_text(doc, j)), "Request an Appointment")
                  /\ find_parent(doc, j, {"div", "p"}) # 0
                  /\ doc[find_parent(doc, j, {"div", "p"})].tag = "div"
                  /\ \A a \in ancestors(doc, j) : doc[a].tag # "p"

\* A page of the combined script whose flag the joined text sets: one
\* paragraph asks, another has the hotline number; the section is present.
C28_Witness ==
    /\ page # <<>> /\ script = "combined"
    /\ page[1].body_content.has_appointment_section
    /\ ~strong_tier(doc, content_divs[1])
    /\ ~paragraph_tier(kept_paragraphs(doc, content_divs[1]))
    /\ page[1].appointment_section.present
    /\ page[1].appointment_section.components.phone_number = ""

\* A page of the combined script whose flag a strong inside a div sets: the
\* section is not present.
C28_StrongInDiv ==
    /\ page # <<>> /\ script = "combined"
    /\ page[1].body_content.has_appointment_section
    /\ ~page[1].appointment_section.present

\* C27: an appointment section that is not present has an empty heading and
\* phone number, no link, link text or link URL, and no app or badge flag.
C27_AbsentSectionIsDefault ==
    (page # <<>> /\ ~page[1].appointment_section.present) =>
        LET c == page[1].appointment_section.components
        IN /\ c.heading = "" /\ c.phone_number = ""
           /\ ~c.click_here_link.present
           /\ c.click_here_link.text = <<>> /\ c.click_here_link.url = <<>>
           /\ ~c.family_hifazat.main_link_present
           /\ ~c.family_hifazat.google_play_button
           /\ ~c.family_hifazat.app_store_button

\* A page whose only paragraph has a phone number, a link and a store badge
\* but does not ask to request an appointment, scraped.
C27_Witness ==
    /\ page # <<>>
    /\ ~page[1].appointment_section.present
    /\ \E p \in 1..Len(doc) :
          /\ doc[p].tag = "p"
          /\ HasPhone(clean_text(get_text(doc, p)))
          /\ find(doc, p, LAMBDA j : IsLink(doc, j)) # 0
          /\ ImagesOf(doc, p) # <<>>



\* The tiers as stated, with the phone pattern (NNN)NNNNNNNNN.
StatedStrongTier(d, region) ==
    \E j \in 1..Len(d) :
        /\ InSubtree(d, region, j) /\ d[j].tag = "strong"
        /\ contains(clean_text(get_text(d, j)), "Request an Appointment")
        /\ find_parent(d, j, {"div", "p"}) # 0
        /\ \/ HasPhone(clean_text(get_text(d, find_parent(d, j, {"div", "p"}))))
           \/ contains(clean_text(get_text(d, find_parent(d, j, {"div", "p"}))), "Family Hifazat")

StatedParagraphTier(paragraphs) ==
    \E k \in 1..Len(paragraphs) :
        /\ contains(paragraphs[k], "Request an Appointment")
        /\ \/ HasPhone(paragraphs[k])
           \/ \E w \in {"Family Hifazat", "Click here", "call to book"} : contains(paragraphs[k], w)

StatedTextTier(main_text) ==
    /\ contains(main_text, "Request an Appointment")
    /\ HasPhone(main_text) \/ contains(main_text, "Family Hifazat")

\* C22: in the combined script, has_appointment_section is true exactly when
\* a strong with the phrase has an enclosing div or p with a phone number of
\* the pattern or the app's name, or a kept paragraph holds the phrase with
\* such a number, the app's name, "Click here" or "call to book", or the
\* joined text holds the phrase with such a number or the app's name.
C22_ThreeTiers ==
    (page # <<>> /\ script = "combined") =>
        (page[1].body_content.has_appointment_section
            <=> \/ StatedStrongTier(doc, content_divs[1])
                \/ StatedParagraphTier(kept_paragraphs(doc, content_divs[1]))
                \/ StatedTextTier(page[1].body_content.main_paragraphs))

IsAbsolute(url) == url # <<>> /\ Head(url) \in {"http://", "https://"}

\* The host of an absolute URL is the organization's.
OwnHost(url) == Len(url) >= 2 /\ url[2] \in {"aku.edu", "hospitals.aku.edu"}

\* C18: an entry of external_links is external exactly when its URL is
\* absolute and its host is not the organization's, else document exactly
\* when the URL ends in a document extension, else internal.
C18_LinkTypeByHost ==
    page # <<>> =>
        \A k \in 1..Len(page[1].external_links) :
            LET e == page[1].external_links[k]
                ext == IsAbsolute(e.url) /\ ~OwnHost(e.url)
            IN /\ e.type = "external" <=> ext
               /\ e.type = "document" <=> (~ext /\ endswith_document(e.url))
               /\ e.type = "internal" <=> (~ext /\ ~endswith_document(e.url))

\* C19: external_links holds, in document order and once each, the links
\* with a text and an href that are no doctor-search links and have no
\* breadcrumb-classed ancestor at any depth.
C19_NoBreadcrumbLinks ==
    page # <<>> =>
        LET kept == find_all(doc, 0, LAMBDA j :
                /\ IsLink(doc, j)
                /\ clean_text(get_text(doc, j)) # <<>>
                /\ doc[j].href # <<>>
                /\ ~is_findadoctor(doc[j].href)
                /\ \A a \in ancestors(doc, j) : ~contains(doc[a].cls, "breadcrumb"))
        IN [k \in 1..Len(page[1].external_links) |->
               <<page[1].external_links[k].text, page[1].external_links[k].url>>]
           = [k \in 1..Len(kept) |-> <<clean_text(get_text(doc, kept[k])), doc[kept[k]].href>>]

\* C20: on a page without h4 headings, a doctor-search link is among the
\* faculty links exactly when its text holds "meet our", "find a doctor" or
\* "faculty" in any case.
C20_FacultyTextAnyCase ==
    (page # <<>> /\ find(doc, 0, LAMBDA j : doc[j].tag = "h4") = 0) =>
        \A k \in 1..Len(DoctorLinks(doc)) :
            LET j == DoctorLinks(doc)[k]
                text == clean_text(get_text(doc, j))
            IN (\E i \in 1..Len(page[1].faculty_links.links) :
                    /\ page[1].faculty_links.links[i].url = doc[j].href
                    /\ page[1].faculty_links.links[i].text = text)
               <=> \/ contains(text_lower(text), "meet our")
                   \/ contains(text_lower(text), "find a doctor")
                   \/ contains(text_lower(text), "faculty")


====
